---- MODULE Spec2Model ----
(***************************************************************************)
(* Model of the multi-step LSTM subsystem of system-load-AI                *)
(* (src/system-load-ai/ml_models/scripts/train_lstm.py): the load-score    *)
(* functions, the sliding-window dataset, checkpoint load/save and the     *)
(* retraining protocol.                                                    *)
(*                                                                         *)
(* The specifications share the variables:                               *)
(*   SpecDataset  one dataset, one operation on it (len / getitem)         *)
(*   SpecScore    the two load-score functions applied to a pair of inputs *)
(*   Spec         one training or retraining run against a checkpoint file *)
(*   SpecFeatures feature derivation from a raw table, both code paths     *)
(*   SpecPredict  input preparation and calls of predict_future_metrics    *)
(*   SpecScaler   a MinMaxScaler: fit, transform, inverse_transform        *)
(*   SpecMain     main_pytorch, then prediction and retrain at its path    *)
(*   SpecSplit    a retrain up to its train/validation split               *)
(*   SpecConcurrent  two retrains at once on one checkpoint path           *)
(*   SpecReadWrite   a retrain and a load for prediction at any moment     *)
(*   SpecServing  the serving layer of src/ml_models/main.py               *)
(*   SpecMock     the mock metrics server (mock-server/app.py)             *)
(***************************************************************************)
EXTENDS Integers, Sequences, FiniteSets, TLC

VARIABLES
    data,           \* MultistepDataset.data: the feature rows, in table order
    input_window,   \* MultistepDataset.input_window
    pred_steps,     \* MultistepDataset.pred_steps
    dsop,           \* the last operation applied to the dataset and its result
    tput,           \* the pair of throughput inputs handed to a score function
    score,          \* the scores computed for them
    file,           \* the checkpoint file at model_path
    file0,          \* history: that file as it was before any run started
    call,           \* per run: the operation called and its arguments
    pc,             \* per run: the position in the operation's code
    sizes,          \* per run: train_size and val_size of the split
    model,          \* per run: the model object being trained
    epoch,          \* per run: the loop variable of the epoch loop
    losses,         \* per run: train_losses, val_losses and the pending train_loss
    ret,            \* per run: what the operation returned or raised
    loaded,         \* the outcome of the last load_model_for_prediction
    df,             \* the caller's raw table (a pandas DataFrame)
    prep,           \* the outcome of prepare_input_data_for_prediction
    pmodel,         \* the model object handed to predict_future_metrics
    preds,          \* the calls of predict_future_metrics made so far
    mm,             \* a MinMaxScaler, the matrix it is fit on and a vector
    api,            \* the serving layer: registry, checkpoint directory, response
    mock            \* the mock metrics server: CSV data, gauges, response

dsVars == <<data, input_window, pred_steps, dsop>>
scVars == <<tput, score>>
runVars == <<call, pc, sizes, model, epoch, losses, ret>>
ckVars == <<file, file0, loaded>>
prVars == <<df, prep, pmodel, preds>>
svVars == <<api, mock>>

----------------------------------------------------------------------------
(* Bounds of the model. *)
MaxRows == 7
MaxWindow == 3
MaxSteps == 3
MaxEpochs == 2
MaxPart == 2
MaxTable == 2
MaxCalls == 2
ScalerRows == 2
ScalerMax == 2
Delta == 2
GridSteps == 8
MaxCsv == 2

Min(a, b) == IF a <= b THEN a ELSE b
Max(a, b) == IF a >= b THEN a ELSE b

----------------------------------------------------------------------------
(* Load scores.  A score is an exact rational, held as an integer count of *)
(* 1/ScoreDenom; ScoreDenom is a common multiple of every segment width in *)
(* both functions, so each division below is exact.                        *)
ScoreDenom == 8192 * 225

\* num / den as a count of 1/ScoreDenom (den divides ScoreDenom)
Ratio(num, den) == num * (ScoreDenom \div den)

\* Faults used to show the claims depend on the code.
calculate_network_load_score_wrongbase(total_network_throughput) ==
    LET lowThreshold == 128
        mediumThreshold == 1280
        highThreshold == 6400
        maxThreshold == 12800
        x == total_network_throughput
        s == IF x <= lowThreshold
               THEN Ratio(x, lowThreshold) * 25
             ELSE IF x <= mediumThreshold
               THEN 25 * ScoreDenom
                    + Ratio(x - lowThreshold, mediumThreshold - lowThreshold) * 25
             ELSE IF x <= highThreshold
               THEN 40 * ScoreDenom
                    + Ratio(x - mediumThreshold, highThreshold - mediumThreshold) * 25
             ELSE IF x <= maxThreshold
               THEN 75 * ScoreDenom
                    + Ratio(x - highThreshold, maxThreshold - highThreshold) * 25
             ELSE 100 * ScoreDenom
    IN  Min(Max(s, 0), 100 * ScoreDenom)

calculate_network_load_score(total_network_throughput) ==
    LET lowThreshold == 128
        mediumThreshold == 1280
        highThreshold == 6400
        maxThreshold == 12800
        x == total_network_throughput
        s == IF x <= lowThreshold
               THEN Ratio(x, lowThreshold) * 25
             ELSE IF x <= mediumThreshold
               THEN 25 * ScoreDenom
                    + Ratio(x - lowThreshold, mediumThreshold - lowThreshold) * 25
             ELSE IF x <= highThreshold
               THEN 50 * ScoreDenom
                    + Ratio(x - mediumThreshold, highThreshold - mediumThreshold) * 25
             ELSE IF x <= maxThreshold
               THEN 75 * ScoreDenom
                    + Ratio(x - highThreshold, maxThreshold - highThreshold) * 25
             ELSE 100 * ScoreDenom
    IN  Min(Max(s, 0), 100 * ScoreDenom)

calculate_disk_load_score_noclamp(total_disk_throughput) ==
    LET lowThreshold == 1024
        mediumThreshold == 10240
        highThreshold == 51200
        maxThreshold == 102400
        x == total_disk_throughput
    IN  IF x <= lowThreshold
          THEN Ratio(x, lowThreshold) * 25
        ELSE IF x <= mediumThreshold
          THEN 25 * ScoreDenom
               + Ratio(x - lowThreshold, mediumThreshold - lowThreshold) * 25
        ELSE IF x <= highThreshold
          THEN 50 * ScoreDenom
               + Ratio(x - mediumThreshold, highThreshold - mediumThreshold) * 25
        ELSE IF x <= maxThreshold
          THEN 75 * ScoreDenom
               + Ratio(x - highThreshold, maxThreshold - highThreshold) * 25
        ELSE 100 * ScoreDenom

calculate_disk_load_score_wrongwidth(total_disk_throughput) ==
    LET lowThreshold == 1024
        mediumThreshold == 10240
        highThreshold == 51200
        maxThreshold == 102400
        x == total_disk_throughput
        s == IF x <= lowThreshold
               THEN Ratio(x, lowThreshold) * 25
             ELSE IF x <= mediumThreshold
               THEN 25 * ScoreDenom
                    + Ratio(x - lowThreshold, mediumThreshold) * 25
             ELSE IF x <= highThreshold
               THEN 50 * ScoreDenom
                    + Ratio(x - mediumThreshold, highThreshold - mediumThreshold) * 25
             ELSE IF x <= maxThreshold
               THEN 75 * ScoreDenom
                    + Ratio(x - highThreshold, maxThreshold - highThreshold) * 25
             ELSE 100 * ScoreDenom
    IN  Min(Max(s, 0), 100 * ScoreDenom)

calculate_disk_load_score(total_disk_throughput) ==
    LET lowThreshold == 1024
        mediumThreshold == 10240
        highThreshold == 51200
        maxThreshold == 102400
        x == total_disk_throughput
        s == IF x <= lowThreshold
               THEN Ratio(x, lowThreshold) * 25
             ELSE IF x <= mediumThreshold
               THEN 25 * ScoreDenom
                    + Ratio(x - lowThreshold, mediumThreshold - lowThreshold) * 25
             ELSE IF x <= highThreshold
               THEN 50 * ScoreDenom
                    + Ratio(x - mediumThreshold, highThreshold - mediumThreshold) * 25
             ELSE IF x <= maxThreshold
               THEN 75 * ScoreDenom
                    + Ratio(x - highThreshold, maxThreshold - highThreshold) * 25
             ELSE 100 * ScoreDenom
    IN  Min(Max(s, 0), 100 * ScoreDenom)

NetThresholds == <<128, 1280, 6400, 12800>>
DiskThresholds == <<1024, 10240, 51200, 102400>>

\* Inputs tried: every value within Delta of 0 and of each threshold, a
\* coarse grid from below 0 to beyond the max threshold, and the scenario
\* inputs of the score examples.
ScoreInputs(th) ==
    {t + d : t \in {0, th[1], th[2], th[3], th[4]}, d \in (0 - Delta)..Delta}
    \cup {k * (th[4] \div GridSteps) : k \in (0 - 1)..(GridSteps + 2)}
    \cup {th[1] \div 2, 20000, 200000}

----------------------------------------------------------------------------
(* Python sequence slicing s[a:b] on a 1-based TLA+ sequence: a negative   *)
(* bound counts from the end, and every bound is clamped to [0, len].      *)
PyBound(i, n) == IF i < 0 THEN Max(i + n, 0) ELSE Min(i, n)

PySlice(s, a, b) == SubSeq(s, PyBound(a, Len(s)) + 1, PyBound(b, Len(s)))

\* Python's builtin len(obj): the value of obj.__len__(), or ValueError
\* when that value is negative.
PyLen(v) == IF v < 0 THEN [kind |-> "ValueError"] ELSE [kind |-> "int", val |-> v]

\* MultistepDataset.__len__
MultistepDataset_len(d, w, p) == Len(d) - w - p + 1

\* The target slice starts one row early.
MultistepDataset_getitem_overlap(d, w, p, idx) ==
    [x |-> PySlice(d, idx, idx + w),
     y |-> PySlice(d, idx + w - 1, idx + w + p - 1)]

\* MultistepDataset.__getitem__
MultistepDataset_getitem(d, w, p, idx) ==
    [x |-> PySlice(d, idx, idx + w),
     y |-> PySlice(d, idx + w, idx + w + p)]

\* The feature matrix of a table of n rows: row k stands for the feature
\* vector derived from the k-th table row.
Rows(n) == [k \in 1..n |-> k]

NoOp == [op |-> "none"]
NoScore == [kind |-> "none"]
NoTput == [kind |-> "none"]

----------------------------------------------------------------------------
(* Models, state dicts and the checkpoint file.                            *)
(*                                                                         *)
(* A parameter tensor is its shape and an abstract value: where the value  *)
(* began ("stored": it was in the checkpoint before any run; "init": a     *)
(* random initialisation), the run that last trained it (0: none) and how  *)
(* many training passes have updated it.                                   *)
Runs == {1, 2}

StoredVal == [src |-> "stored", run |-> 0, upd |-> 0]
InitVal == [src |-> "init", run |-> 0, upd |-> 0]

\* The architecture retrain_model_with_new_data constructs.
RetrainArch(p) ==
    [input_size |-> 4, hidden_size |-> 64, num_layers |-> 2,
     pred_steps |-> p, output_size |-> 4]

\* The parameters of a MultistepLSTM and their shapes: the LSTM layers
\* (lstm.*_l0, lstm.*_l1, ...) and the linear head fc.
LSTMKeys(arch) ==
    {"lstm.l0", "fc.weight", "fc.bias"}
    \cup (IF arch.num_layers > 1 THEN {"lstm.l1"} ELSE {})

LSTMShape(arch, k) ==
    CASE k = "lstm.l0" -> <<4 * arch.hidden_size, arch.input_size>>
      [] k = "lstm.l1" -> <<4 * arch.hidden_size, arch.hidden_size>>
      [] k = "fc.weight" -> <<arch.pred_steps * arch.output_size, arch.hidden_size>>
      [] k = "fc.bias" -> <<arch.pred_steps * arch.output_size>>

\* state_dict of a MultistepLSTM of architecture arch whose tensors all
\* hold value v
StateDict(arch, v) ==
    [k \in LSTMKeys(arch) |-> [shape |-> LSTMShape(arch, k), val |-> v]]

\* MultistepLSTM(...): a new module, randomly initialised, in training mode
MultistepLSTM(arch) ==
    [class |-> "MultistepLSTM", arch |-> arch,
     sd |-> StateDict(arch, InitVal), mode |-> "train"]

\* LSTMModel(input_size, output_size, hidden_layer_size=50, num_layers=2)
LSTMModel(nfeat) ==
    [class |-> "LSTMModel",
     arch |-> [input_size |-> nfeat, hidden_size |-> 50, num_layers |-> 2,
               output_size |-> nfeat],
     sd |-> [k \in {"lstm.l0", "lstm.l1", "linear.weight", "linear.bias"} |->
               [shape |-> CASE k = "lstm.l0" -> <<200, nfeat>>
                            [] k = "lstm.l1" -> <<200, 50>>
                            [] k = "linear.weight" -> <<nfeat, 50>>
                            [] k = "linear.bias" -> <<nfeat>>,
                val |-> InitVal]],
     mode |-> "train"]

NoModel == [class |-> "none"]

\* Shapes are not compared: every tensor whose key matches is copied.
load_state_dict_keysonly(m, sd) ==
    LET keys == DOMAIN m.sd
    IN  [ok |-> (DOMAIN sd = keys),
         model |-> [m EXCEPT !.sd = [k \in keys |->
                                       IF k \in DOMAIN sd THEN sd[k] ELSE m.sd[k]]]]

\* Module.load_state_dict(sd), strict: every tensor whose key and shape
\* match is copied into m; a missing key, an unexpected key or a shape
\* mismatch is collected and raised as RuntimeError after the copying.
load_state_dict(m, sd) ==
    LET keys == DOMAIN m.sd
        good == {k \in keys \cap DOMAIN sd : sd[k].shape = m.sd[k].shape}
    IN  [ok |-> (DOMAIN sd = keys /\ good = keys),
         model |-> [m EXCEPT !.sd = [k \in keys |->
                                       IF k \in good THEN sd[k] ELSE m.sd[k]]]]

\* torch.load(path): the stored object, or the exception it raises.
torch_load(f) ==
    CASE f.kind = "state_dict" -> [ok |-> TRUE, sd |-> f.sd]
      [] f.kind = "missing" -> [ok |-> FALSE, exc |-> "FileNotFoundError"]
      [] OTHER -> [ok |-> FALSE, exc |-> "UnpicklingError"]

\* One pass of optimizer steps by run r over a non-empty train loader.
Trained(m, r) ==
    [m EXCEPT !.sd = [k \in DOMAIN m.sd |->
                        [m.sd[k] EXCEPT !.val = [src |-> @.src, run |-> r,
                                                 upd |-> @.upd + 1]]],
              !.mode = "train"]

MissingFile == [kind |-> "missing"]
CorruptFile == [kind |-> "corrupt"]
PartialFile == [kind |-> "partial"]
\* The path while two writers have it open at once.
RacedFile == [kind |-> "raced"]
StateDictFile(sd) == [kind |-> "state_dict", sd |-> sd]

\* Architectures a checkpoint was stored with, or a caller asks to load.
Archs ==
    {[input_size |-> 4, hidden_size |-> h, num_layers |-> 2,
      pred_steps |-> p, output_size |-> 4] : h \in {64, 32}, p \in 1..MaxSteps}

\* What the file at model_path can hold before a run.
FileInits ==
    {MissingFile, CorruptFile}
    \cup {StateDictFile(StateDict(a, StoredVal)) : a \in Archs}

LossVals == {"finite", "nan"}

NoRet == [kind |-> "none"]
NoLosses == [train_losses |-> <<>>, val_losses |-> <<>>, train_loss |-> "none"]
NoSizes == [train_size |-> 0, val_size |-> 0]
NoCall == [kind |-> "idle"]
NotLoaded == [kind |-> "not_called"]

\* No run, no checkpoint: the state of the run variables in the
\* specifications that are about pure functions.
NoRuns ==
    /\ file = MissingFile
    /\ file0 = MissingFile
    /\ call = [r \in Runs |-> NoCall]
    /\ pc = [r \in Runs |-> "idle"]
    /\ sizes = [r \in Runs |-> NoSizes]
    /\ model = [r \in Runs |-> NoModel]
    /\ epoch = [r \in Runs |-> 0]
    /\ losses = [r \in Runs |-> NoLosses]
    /\ ret = [r \in Runs |-> NoRet]
    /\ loaded = NotLoaded

NoTable == [columns |-> {}, rows |-> <<>>]
NoPrep == [kind |-> "none"]
NoScaler == [stage |-> "none"]

NoApi == [up |-> FALSE]
NoMock == [up |-> FALSE]

\* Neither server process runs.
NoServers ==
    /\ api = NoApi
    /\ mock = NoMock

\* No table, no prediction, no scaler: the state of the pipeline variables
\* in the specifications that are not about them.
NoPipeline ==
    /\ df = NoTable
    /\ prep = NoPrep
    /\ pmodel = NoModel
    /\ preds = <<>>
    /\ mm = NoScaler

----------------------------------------------------------------------------
(* Raw tables and feature derivation.                                      *)
(*                                                                         *)
(* A table is its set of column names and its rows, each row a function    *)
(* from the column names to numbers.  A feature row is                     *)
(* <<cpu, memory, network, disk>>; the memory percentage                   *)
(* usage / capacity * 100 is the exact quotient num / den.                 *)
CPU == "CPU usage [%]"
MemUsage == "Memory usage [KB]"
MemCapacity == "Memory capacity provisioned [KB]"
NetRx == "Network received throughput [KB/s]"
NetTx == "Network transmitted throughput [KB/s]"
DiskRead == "Disk read throughput [KB/s]"
DiskWrite == "Disk write throughput [KB/s]"
TotalNet == "Total Network Throughput [KB/s]"
TotalDisk == "Total Disk Throughput [KB/s]"

RequiredColumns == {CPU, MemUsage, MemCapacity, NetRx, NetTx, DiskRead, DiskWrite}

\* a[i] + b[i] for every row i
ColumnSum(t, a, b) == [i \in 1..Len(t.rows) |-> t.rows[i][a] + t.rows[i][b]]

\* df[c] = series: the column is added to the table itself, or overwritten
\* when the table has it already.
SetColumn(t, c, series) ==
    [columns |-> t.columns \cup {c},
     rows |-> [i \in 1..Len(t.rows) |->
                 [k \in t.columns \cup {c} |->
                    IF k = c THEN series[i] ELSE t.rows[i][k]]]]

\* torch.zeros(1, 4)
ZeroRow == <<0, [num |-> 0, den |-> 1], 0, 0>>

\* The columns are concatenated with the disk score before the network
\* score.
MultistepDataset_init_diskfirst(t, w, p) ==
    IF ~({NetRx, NetTx} \subseteq t.columns)
      THEN [raised |-> "KeyError", df |-> t]
    ELSE
    LET t1 == SetColumn(t, TotalNet, ColumnSum(t, NetRx, NetTx))
    IN  IF ~({DiskRead, DiskWrite} \subseteq t1.columns)
          THEN [raised |-> "KeyError", df |-> t1]
        ELSE
        LET t2 == SetColumn(t1, TotalDisk, ColumnSum(t1, DiskRead, DiskWrite))
        IN  IF ~({MemUsage, MemCapacity, CPU} \subseteq t2.columns)
              THEN [raised |-> "KeyError", df |-> t2]
            ELSE [raised |-> "none", df |-> t2,
                  data |-> [i \in 1..Len(t2.rows) |->
                      <<t2.rows[i][CPU],
                        [num |-> t2.rows[i][MemUsage] * 100,
                         den |-> t2.rows[i][MemCapacity]],
                        calculate_disk_load_score(t2.rows[i][TotalDisk]),
                        calculate_network_load_score(t2.rows[i][TotalNet])>>],
                  input_window |-> w, pred_steps |-> p]

\* MultistepDataset.__init__(df, input_window, pred_steps): the exception
\* it raises if any, the table as the call leaves it, and the fields set.
\* df[c] raises KeyError for a column the table lacks.
MultistepDataset_init(t, w, p) ==
    IF ~({NetRx, NetTx} \subseteq t.columns)
      THEN [raised |-> "KeyError", df |-> t]
    ELSE
    LET t1 == SetColumn(t, TotalNet, ColumnSum(t, NetRx, NetTx))
    IN  IF ~({DiskRead, DiskWrite} \subseteq t1.columns)
          THEN [raised |-> "KeyError", df |-> t1]
        ELSE
        LET t2 == SetColumn(t1, TotalDisk, ColumnSum(t1, DiskRead, DiskWrite))
            disk_throughput == [i \in 1..Len(t2.rows) |->
                                  calculate_disk_load_score(t2.rows[i][TotalDisk])]
            network_throughput == [i \in 1..Len(t2.rows) |->
                                  calculate_network_load_score(t2.rows[i][TotalNet])]
        IN  IF ~({MemUsage, MemCapacity} \subseteq t2.columns)
              THEN [raised |-> "KeyError", df |-> t2]
            ELSE IF CPU \notin t2.columns
              THEN [raised |-> "KeyError", df |-> t2]
            ELSE
            LET memory_usage == [i \in 1..Len(t2.rows) |->
                                   [num |-> t2.rows[i][MemUsage] * 100,
                                    den |-> t2.rows[i][MemCapacity]]]
                cpu_usage == [i \in 1..Len(t2.rows) |-> t2.rows[i][CPU]]
            IN  [raised |-> "none", df |-> t2,
                 data |-> [i \in 1..Len(t2.rows) |->
                             <<cpu_usage[i], memory_usage[i],
                               network_throughput[i], disk_throughput[i]>>],
                 input_window |-> w, pred_steps |-> p]

\* prepare_input_data_for_prediction(df, input_window): the exception it
\* raises if any, the table as the call leaves it, what it prints and the
\* tensor it returns (data is its local feature matrix).
prepare_input_data_for_prediction(t, w) ==
    IF ~({NetRx, NetTx} \subseteq t.columns)
      THEN [raised |-> "KeyError", df |-> t]
    ELSE
    LET t1 == SetColumn(t, TotalNet, ColumnSum(t, NetRx, NetTx))
    IN  IF ~({DiskRead, DiskWrite} \subseteq t1.columns)
          THEN [raised |-> "KeyError", df |-> t1]
        ELSE
        LET t2 == SetColumn(t1, TotalDisk, ColumnSum(t1, DiskRead, DiskWrite))
            disk_throughput == [i \in 1..Len(t2.rows) |->
                                  calculate_disk_load_score(t2.rows[i][TotalDisk])]
            network_throughput == [i \in 1..Len(t2.rows) |->
                                  calculate_network_load_score(t2.rows[i][TotalNet])]
        IN  IF ~({MemUsage, MemCapacity} \subseteq t2.columns)
              THEN [raised |-> "KeyError", df |-> t2]
            ELSE IF CPU \notin t2.columns
              THEN [raised |-> "KeyError", df |-> t2]
            ELSE
            LET memory_usage == [i \in 1..Len(t2.rows) |->
                                   [num |-> t2.rows[i][MemUsage] * 100,
                                    den |-> t2.rows[i][MemCapacity]]]
                cpu_usage == [i \in 1..Len(t2.rows) |-> t2.rows[i][CPU]]
                d == [i \in 1..Len(t2.rows) |->
                        <<cpu_usage[i], memory_usage[i],
                          network_throughput[i], disk_throughput[i]>>]
            IN  IF Len(d) >= w
                  THEN [raised |-> "none", df |-> t2, data |-> d,
                        printed |-> <<>>,
                        ret |-> PySlice(d, 0 - w, Len(d))]
                  ELSE [raised |-> "none", df |-> t2, data |-> d,
                        printed |-> <<"Warning: Not enough data points">>,
                        ret |-> [i \in 1..(w - Len(d)) |-> ZeroRow] \o d]

\* Rows a table is made of.
RawRows ==
    {[c \in RequiredColumns |->
        CASE c = CPU -> 10 [] c = MemUsage -> 1 [] c = MemCapacity -> 2
          [] c = NetRx -> 64 [] c = NetTx -> 64
          [] c = DiskRead -> 512 [] c = DiskWrite -> 512],
     [c \in RequiredColumns |->
        CASE c = CPU -> 50 [] c = MemUsage -> 3 [] c = MemCapacity -> 4
          [] c = NetRx -> 1000 [] c = NetTx -> 280
          [] c = DiskRead -> 0 [] c = DiskWrite -> 100],
     [c \in RequiredColumns |->
        CASE c = CPU -> 90 [] c = MemUsage -> 4 [] c = MemCapacity -> 4
          [] c = NetRx -> 20000 [] c = NetTx -> 0
          [] c = DiskRead -> 60000 [] c = DiskWrite -> 0]}

SeqsUpTo(S, n) == UNION {[1..k -> S] : k \in 0..n}

\* The table with the columns cols of the full rows rs.
Table(cols, rs) ==
    [columns |-> cols,
     rows |-> [i \in 1..Len(rs) |-> [c \in cols |-> rs[i][c]]]]

\* Tables with every required column; the columns are numeric, also when
\* the table has no rows.
FullTables == {Table(RequiredColumns, rs) : rs \in SeqsUpTo(RawRows, MaxTable)}

\* Tables that lack at most one required column.
Tables ==
    FullTables
    \cup {Table(RequiredColumns \ {c}, rs) :
            c \in RequiredColumns, rs \in SeqsUpTo(RawRows, MaxTable)}

----------------------------------------------------------------------------
(* SpecDataset: a dataset over n rows and one operation on it.             *)
InitDataset ==
    /\ \E n \in 0..MaxRows : data = Rows(n)
    /\ input_window \in 1..MaxWindow
    /\ pred_steps \in 1..MaxSteps
    /\ dsop = NoOp
    /\ tput = NoTput
    /\ score = NoScore
    /\ NoRuns
    /\ NoPipeline
    /\ NoServers

\* len(dataset) and dataset.__len__()
DatasetLen ==
    /\ dsop = NoOp
    /\ dsop' = [op |-> "len",
                raw |-> MultistepDataset_len(data, input_window, pred_steps),
                builtin |-> PyLen(MultistepDataset_len(data, input_window, pred_steps))]
    /\ UNCHANGED <<data, input_window, pred_steps, scVars, runVars, ckVars, prVars, mm, svVars>>

\* dataset[idx]
DatasetGetItem ==
    /\ dsop = NoOp
    /\ \E idx \in 0..MaxRows :
         dsop' = [op |-> "getitem", idx |-> idx,
                  item |-> MultistepDataset_getitem(data, input_window, pred_steps, idx)]
    /\ UNCHANGED <<data, input_window, pred_steps, scVars, runVars, ckVars, prVars, mm, svVars>>

NextDataset == DatasetLen \/ DatasetGetItem

----------------------------------------------------------------------------
(* SpecScore: one of the two score functions applied to inputs a and b.    *)
InitScore ==
    /\ data = Rows(0)
    /\ input_window = 1
    /\ pred_steps = 1
    /\ dsop = NoOp
    /\ \/ \E a, b \in ScoreInputs(NetThresholds) :
            tput = [kind |-> "network", a |-> a, b |-> b]
       \/ \E a, b \in ScoreInputs(DiskThresholds) :
            tput = [kind |-> "disk", a |-> a, b |-> b]
    /\ score = NoScore
    /\ NoRuns
    /\ NoPipeline
    /\ NoServers

ScoreNetwork ==
    /\ tput.kind = "network"
    /\ score = NoScore
    /\ score' = [kind |-> "network",
                 a |-> calculate_network_load_score(tput.a),
                 b |-> calculate_network_load_score(tput.b)]
    /\ UNCHANGED <<dsVars, tput, runVars, ckVars, prVars, mm, svVars>>

ScoreDisk ==
    /\ tput.kind = "disk"
    /\ score = NoScore
    /\ score' = [kind |-> "disk",
                 a |-> calculate_disk_load_score(tput.a),
                 b |-> calculate_disk_load_score(tput.b)]
    /\ UNCHANGED <<dsVars, tput, runVars, ckVars, prVars, mm, svVars>>

NextScore == ScoreNetwork \/ ScoreDisk


----------------------------------------------------------------------------
(* retrain_model_with_new_data, one action per step of run r.              *)

\* int(0.8 * n) for n >= 0
TrainSize(n) == (8 * n) \div 10

\* The operation of run r ends by raising exc.
Raise(r, exc) ==
    /\ pc' = [pc EXCEPT ![r] = "raised"]
    /\ ret' = [ret EXCEPT ![r] = [kind |-> "raised", exc |-> exc]]

\* for epoch in range(1, epochs + 1): the body runs while epoch <= epochs
LoopOrSave(r, k) == IF k <= call[r].epochs THEN "train_epoch" ELSE "save"

\* pd.read_csv(new_data_path): any exception returns (None, None, None)
ReadNewData(r) ==
    /\ pc[r] = "read_csv"
    /\ IF call[r].readable
         THEN /\ pc' = [pc EXCEPT ![r] = "dataset"]
              /\ ret' = ret
         ELSE /\ pc' = [pc EXCEPT ![r] = "returned"]
              /\ ret' = [ret EXCEPT ![r] = [kind |-> "none3"]]
    /\ UNCHANGED <<dsVars, scVars, prVars, mm, ckVars, call, sizes, model, epoch, losses, svVars>>

\* dataset = MultistepDataset(df, input_window, pred_steps)
CreateDataset(r) ==
    /\ pc[r] = "dataset"
    /\ pc' = [pc EXCEPT ![r] = "split"]
    /\ UNCHANGED <<dsVars, scVars, prVars, mm, ckVars, call, sizes, model, epoch, losses, ret, svVars>>

\* The ascending sequence of the numbers of S
RECURSIVE Ascending(_)
Ascending(S) ==
    IF S = {} THEN <<>>
    ELSE LET x == CHOOSE y \in S : \A z \in S : y <= z
         IN  <<x>> \o Ascending(S \ {x})

\* torch.randperm(n, generator): a permutation of 0..n-1 that the state of
\* the generator determines; seed is the set of numbers it puts first.
randperm(n, seed) ==
    Ascending(seed \cap 0..(n - 1)) \o Ascending(0..(n - 1) \ seed)

\* The validation indices are taken from the start of the permutation too.
random_split_overlap(n, train_size, val_size, seed) ==
    LET indices == randperm(train_size + val_size, seed)
    IN  [train_dataset |-> SubSeq(indices, 1, train_size),
         val_dataset |-> SubSeq(indices, 1, val_size)]

\* random_split(dataset, [train_size, val_size]): the indices of the two
\* Subsets, consecutive slices of one permutation of range(sum(lengths)).
random_split(n, train_size, val_size, seed) ==
    LET indices == randperm(train_size + val_size, seed)
    IN  [train_dataset |-> SubSeq(indices, 1, train_size),
         val_dataset |-> SubSeq(indices, train_size + 1, train_size + val_size)]

\* train_size = int(0.8 * len(dataset)); val_size = len(dataset) - train_size;
\* random_split(dataset, [train_size, val_size])
SplitData(r) ==
    /\ pc[r] = "split"
    /\ LET n == PyLen(MultistepDataset_len(data, input_window, pred_steps))
       IN  IF n.kind = "ValueError"
             THEN /\ Raise(r, "ValueError")
                  /\ sizes' = sizes
             ELSE /\ pc' = [pc EXCEPT ![r] = "loaders"]
                  /\ sizes' = [sizes EXCEPT ![r] =
                        LET train_size == TrainSize(n.val)
                            val_size == n.val - train_size
                            parts == random_split(n.val, train_size, val_size,
                                                  call[r].seed)
                        IN  [train_size |-> Len(parts.train_dataset),
                             val_size |-> Len(parts.val_dataset),
                             train_indices |-> parts.train_dataset,
                             val_indices |-> parts.val_dataset]]
                  /\ ret' = ret
    /\ UNCHANGED <<dsVars, scVars, prVars, mm, ckVars, call, model, epoch, losses, svVars>>

\* DataLoader(train_dataset, shuffle=True), DataLoader(val_dataset):
\* the RandomSampler of an empty train_dataset raises ValueError in the
\* torch releases that check num_samples > 0 and is accepted by the others.
CreateLoaders(r) ==
    /\ pc[r] = "loaders"
    /\ \/ /\ pc' = [pc EXCEPT ![r] = "model"]
          /\ ret' = ret
       \/ /\ sizes[r].train_size = 0
          /\ Raise(r, "ValueError")
    /\ UNCHANGED <<dsVars, scVars, prVars, mm, ckVars, call, sizes, model, epoch, losses, svVars>>

\* The load is not guarded: a checkpoint that fails to load ends the run.
LoadOrCreate_propagates(r) ==
    /\ pc[r] = "model"
    /\ LET arch == RetrainArch(pred_steps)
           got == torch_load(file)
           res == load_state_dict(MultistepLSTM(arch), got.sd)
       IN  IF file.kind # "missing" /\ ~(got.ok /\ res.ok)
             THEN /\ Raise(r, IF got.ok THEN "RuntimeError" ELSE got.exc)
                  /\ UNCHANGED <<model, epoch, losses>>
             ELSE /\ model' = [model EXCEPT ![r] =
                        IF file.kind # "missing" THEN res.model
                                                 ELSE MultistepLSTM(arch)]
                  /\ epoch' = [epoch EXCEPT ![r] = 1]
                  /\ losses' = [losses EXCEPT ![r] = NoLosses]
                  /\ pc' = [pc EXCEPT ![r] = LoopOrSave(r, 1)]
                  /\ ret' = ret
    /\ UNCHANGED <<dsVars, scVars, prVars, mm, ckVars, call, sizes, svVars>>

\* The loaded parameters are dropped: training always starts from a new model.
LoadOrCreate_alwaysnew(r) ==
    /\ pc[r] = "model"
    /\ model' = [model EXCEPT ![r] = MultistepLSTM(RetrainArch(pred_steps))]
    /\ epoch' = [epoch EXCEPT ![r] = 1]
    /\ losses' = [losses EXCEPT ![r] = NoLosses]
    /\ pc' = [pc EXCEPT ![r] = LoopOrSave(r, 1)]
    /\ UNCHANGED <<dsVars, scVars, prVars, mm, ckVars, call, sizes, ret, svVars>>

\* After a failed load the training goes on with the model object the
\* load was applied to.
LoadOrCreate_keeppartial(r) ==
    /\ pc[r] = "model"
    /\ LET arch == RetrainArch(pred_steps)
           got == torch_load(file)
           res == load_state_dict(MultistepLSTM(arch), got.sd)
       IN  model' = [model EXCEPT ![r] =
                       IF file.kind # "missing" /\ got.ok
                         THEN res.model
                         ELSE MultistepLSTM(arch)]
    /\ epoch' = [epoch EXCEPT ![r] = 1]
    /\ losses' = [losses EXCEPT ![r] = NoLosses]
    /\ pc' = [pc EXCEPT ![r] = LoopOrSave(r, 1)]
    /\ UNCHANGED <<dsVars, scVars, prVars, mm, ckVars, call, sizes, ret, svVars>>

\* if os.path.exists(model_path): try load_state_dict(torch.load(...))
\* except Exception: new model; else: new model
LoadOrCreate(r) ==
    /\ pc[r] = "model"
    /\ LET arch == RetrainArch(pred_steps)
           got == torch_load(file)
           res == load_state_dict(MultistepLSTM(arch), got.sd)
       IN  model' = [model EXCEPT ![r] =
                       IF file.kind # "missing" /\ got.ok /\ res.ok
                         THEN res.model
                         ELSE MultistepLSTM(arch)]
    /\ epoch' = [epoch EXCEPT ![r] = 1]
    /\ losses' = [losses EXCEPT ![r] = NoLosses]
    /\ pc' = [pc EXCEPT ![r] = LoopOrSave(r, 1)]
    /\ UNCHANGED <<dsVars, scVars, prVars, mm, ckVars, call, sizes, ret, svVars>>

\* The checkpoint is written after the training pass of every epoch.
TrainEpoch_checkpoint(r) ==
    /\ pc[r] = "train_epoch"
    /\ IF sizes[r].train_size = 0
         THEN /\ Raise(r, "ZeroDivisionError")
              /\ model' = [model EXCEPT ![r].mode = "train"]
              /\ losses' = losses
              /\ file' = file
         ELSE /\ \E l \in LossVals :
                   losses' = [losses EXCEPT ![r].train_loss = l]
              /\ model' = [model EXCEPT ![r] = Trained(@, r)]
              /\ file' = StateDictFile(Trained(model[r], r).sd)
              /\ pc' = [pc EXCEPT ![r] = "eval_epoch"]
              /\ ret' = ret
    /\ UNCHANGED <<dsVars, scVars, prVars, mm, file0, loaded, call, sizes, epoch, svVars>>

\* train_epoch(model, train_loader, ...): model.train(), one optimizer
\* step per batch, then total_loss / len(train_loader.dataset)
TrainEpoch(r) ==
    /\ pc[r] = "train_epoch"
    /\ IF sizes[r].train_size = 0
         THEN /\ Raise(r, "ZeroDivisionError")
              /\ model' = [model EXCEPT ![r].mode = "train"]
              /\ losses' = losses
         ELSE /\ \E l \in LossVals :
                   losses' = [losses EXCEPT ![r].train_loss = l]
              /\ model' = [model EXCEPT ![r] = Trained(@, r)]
              /\ pc' = [pc EXCEPT ![r] = "eval_epoch"]
              /\ ret' = ret
    /\ UNCHANGED <<dsVars, scVars, prVars, mm, ckVars, call, sizes, epoch, svVars>>

\* The validation pass takes optimizer steps like the training pass.
EvalEpoch_updates(r) ==
    /\ pc[r] = "eval_epoch"
    /\ model' = [model EXCEPT ![r] = [Trained(@, r) EXCEPT !.mode = "eval"]]
    /\ IF sizes[r].val_size = 0
         THEN /\ Raise(r, "ZeroDivisionError")
              /\ UNCHANGED <<losses, epoch>>
         ELSE /\ \E l \in LossVals :
                   losses' = [losses EXCEPT ![r] =
                      [train_losses |-> Append(@.train_losses,
                            [epoch |-> epoch[r], loss |-> @.train_loss]),
                       val_losses |-> Append(@.val_losses,
                            [epoch |-> epoch[r], loss |-> l]),
                       train_loss |-> "none"]]
              /\ epoch' = [epoch EXCEPT ![r] = @ + 1]
              /\ pc' = [pc EXCEPT ![r] = LoopOrSave(r, epoch[r] + 1)]
              /\ ret' = ret
    /\ UNCHANGED <<dsVars, scVars, prVars, mm, ckVars, call, sizes, svVars>>

\* The loop stops at the first epoch whose validation loss is not finite.
EvalEpoch_earlystop(r) ==
    /\ pc[r] = "eval_epoch"
    /\ model' = [model EXCEPT ![r].mode = "eval"]
    /\ IF sizes[r].val_size = 0
         THEN /\ Raise(r, "ZeroDivisionError")
              /\ UNCHANGED <<losses, epoch>>
         ELSE /\ \E l \in LossVals :
                   /\ losses' = [losses EXCEPT ![r] =
                         [train_losses |-> Append(@.train_losses,
                               [epoch |-> epoch[r], loss |-> @.train_loss]),
                          val_losses |-> Append(@.val_losses,
                               [epoch |-> epoch[r], loss |-> l]),
                          train_loss |-> "none"]]
                   /\ pc' = [pc EXCEPT ![r] =
                               IF l = "nan" THEN "save"
                                            ELSE LoopOrSave(r, epoch[r] + 1)]
              /\ epoch' = [epoch EXCEPT ![r] = @ + 1]
              /\ ret' = ret
    /\ UNCHANGED <<dsVars, scVars, prVars, mm, ckVars, call, sizes, svVars>>

\* eval_epoch(model, val_loader, ...) under no_grad, then both appends and
\* the next iteration of the epoch loop
EvalEpoch(r) ==
    /\ pc[r] = "eval_epoch"
    /\ model' = [model EXCEPT ![r].mode = "eval"]
    /\ IF sizes[r].val_size = 0
         THEN /\ Raise(r, "ZeroDivisionError")
              /\ UNCHANGED <<losses, epoch>>
         ELSE /\ \E l \in LossVals :
                   losses' = [losses EXCEPT ![r] =
                      [train_losses |-> Append(@.train_losses,
                            [epoch |-> epoch[r], loss |-> @.train_loss]),
                       val_losses |-> Append(@.val_losses,
                            [epoch |-> epoch[r], loss |-> l]),
                       train_loss |-> "none"]]
              /\ epoch' = [epoch EXCEPT ![r] = @ + 1]
              /\ pc' = [pc EXCEPT ![r] = LoopOrSave(r, epoch[r] + 1)]
              /\ ret' = ret
    /\ UNCHANGED <<dsVars, scVars, prVars, mm, ckVars, call, sizes, svVars>>

\* The tensors of a are in the file up to the head, those of b after.
MixedStateDict(a, b) ==
    [k \in DOMAIN a |-> IF k \in {"fc.weight", "fc.bias"} /\ k \in DOMAIN b
                          THEN b[k] ELSE a[k]]

\* What the file can hold once run r, the last of two overlapping writers,
\* has finished: the state dict of either, a merge that still loads, or
\* bytes that do not load.
RaceOutcomes(r) ==
    {StateDictFile(model[r].sd), CorruptFile}
    \cup UNION {{StateDictFile(model[q].sd),
                 StateDictFile(MixedStateDict(model[r].sd, model[q].sd)),
                 StateDictFile(MixedStateDict(model[q].sd, model[r].sd))} :
                q \in {q \in Runs \ {r} : model[q].class = "MultistepLSTM"}}

\* torch.save(model.state_dict(), model_path) opens the path for writing,
\* which truncates the file in place ...
SaveBegin(r) ==
    /\ pc[r] = "save"
    /\ file' = IF \E q \in Runs \ {r} : pc[q] = "saving"
                 THEN RacedFile ELSE PartialFile
    /\ pc' = [pc EXCEPT ![r] = "saving"]
    /\ UNCHANGED <<dsVars, scVars, prVars, mm, file0, loaded, call, sizes, model,
                   epoch, losses, ret, svVars>>

\* An existing checkpoint is kept: the state dict is written only when
\* there was no file at the path.
SaveEnd_keepexisting(r) ==
    /\ pc[r] = "saving"
    /\ file' = IF file0.kind = "missing" THEN StateDictFile(model[r].sd) ELSE file0
    /\ pc' = [pc EXCEPT ![r] = "done"]
    /\ ret' = [ret EXCEPT ![r] =
                 [kind |-> "tuple", model |-> model[r],
                  train_losses |-> losses[r].train_losses,
                  val_losses |-> losses[r].val_losses]]
    /\ UNCHANGED <<dsVars, scVars, prVars, mm, file0, loaded, call, sizes, model, epoch, losses, svVars>>

\* The state dict is written over that of the other run, tensor by tensor:
\* the file ends as a merge of the two.
SaveEnd_merge(r) ==
    /\ pc[r] = "saving"
    /\ file' = IF \E q \in Runs \ {r} : model[q].class = "MultistepLSTM"
                 THEN StateDictFile(MixedStateDict(model[r].sd,
                        model[CHOOSE q \in Runs \ {r} :
                                model[q].class = "MultistepLSTM"].sd))
                 ELSE StateDictFile(model[r].sd)
    /\ pc' = [pc EXCEPT ![r] = "done"]
    /\ ret' = [ret EXCEPT ![r] =
                 [kind |-> "tuple", model |-> model[r],
                  train_losses |-> losses[r].train_losses,
                  val_losses |-> losses[r].val_losses]]
    /\ UNCHANGED <<dsVars, scVars, prVars, mm, file0, loaded, call, sizes, model, epoch, losses, svVars>>

\* ... and writes the state dict; then return model, train_losses, val_losses.
\* A write that overlapped the write of another run leaves the bytes of
\* either writer at each offset.
SaveEnd(r) ==
    /\ pc[r] = "saving"
    /\ IF file # RacedFile
         THEN file' = StateDictFile(model[r].sd)
         ELSE IF \E q \in Runs \ {r} : pc[q] = "saving"
           THEN file' = RacedFile
           ELSE file' \in RaceOutcomes(r)
    /\ pc' = [pc EXCEPT ![r] = "done"]
    /\ ret' = [ret EXCEPT ![r] =
                 [kind |-> "tuple", model |-> model[r],
                  train_losses |-> losses[r].train_losses,
                  val_losses |-> losses[r].val_losses]]
    /\ UNCHANGED <<dsVars, scVars, prVars, mm, file0, loaded, call, sizes, model, epoch, losses, svVars>>

----------------------------------------------------------------------------
(* train_pytorch_model(model, train_loader, val_loader, ..., epochs).      *)

\* for epoch in range(epochs): the body runs while epoch < epochs
LoopOrReturn(r, k) == IF k < call[r].epochs THEN "tpm_train" ELSE "tpm_return"

TpmStart(r) ==
    /\ pc[r] = "tpm_start"
    /\ losses' = [losses EXCEPT ![r] = NoLosses]
    /\ epoch' = [epoch EXCEPT ![r] = 0]
    /\ pc' = [pc EXCEPT ![r] = LoopOrReturn(r, 0)]
    /\ UNCHANGED <<dsVars, scVars, prVars, mm, ckVars, call, sizes, model, ret, svVars>>

\* the training pass of one epoch and train_losses.append
TpmTrain(r) ==
    /\ pc[r] = "tpm_train"
    /\ IF sizes[r].train_size = 0
         THEN /\ Raise(r, "ZeroDivisionError")
              /\ model' = [model EXCEPT ![r].mode = "train"]
              /\ losses' = losses
         ELSE /\ \E l \in LossVals :
                   losses' = [losses EXCEPT ![r].train_losses =
                                Append(@, [epoch |-> epoch[r], loss |-> l])]
              /\ model' = [model EXCEPT ![r] = Trained(@, r)]
              /\ pc' = [pc EXCEPT ![r] = "tpm_eval"]
              /\ ret' = ret
    /\ UNCHANGED <<dsVars, scVars, prVars, mm, ckVars, call, sizes, epoch, svVars>>

\* the validation pass of one epoch and val_losses.append
TpmEval(r) ==
    /\ pc[r] = "tpm_eval"
    /\ model' = [model EXCEPT ![r].mode = "eval"]
    /\ IF sizes[r].val_size = 0
         THEN /\ Raise(r, "ZeroDivisionError")
              /\ UNCHANGED <<losses, epoch>>
         ELSE /\ \E l \in LossVals :
                   losses' = [losses EXCEPT ![r].val_losses =
                                Append(@, [epoch |-> epoch[r], loss |-> l])]
              /\ epoch' = [epoch EXCEPT ![r] = @ + 1]
              /\ pc' = [pc EXCEPT ![r] = LoopOrReturn(r, epoch[r] + 1)]
              /\ ret' = ret
    /\ UNCHANGED <<dsVars, scVars, prVars, mm, ckVars, call, sizes, svVars>>

\* return train_losses, val_losses
TpmReturn(r) ==
    /\ pc[r] = "tpm_return"
    /\ pc' = [pc EXCEPT ![r] = "done"]
    /\ ret' = [ret EXCEPT ![r] =
                 [kind |-> "losses",
                  train_losses |-> losses[r].train_losses,
                  val_losses |-> losses[r].val_losses]]
    /\ UNCHANGED <<dsVars, scVars, prVars, mm, ckVars, call, sizes, model, epoch, losses, svVars>>

\* A failed torch.load is ignored: the model is returned as constructed.
load_model_for_prediction_nocheck(f, arch) ==
    LET got == torch_load(f)
        res == load_state_dict(MultistepLSTM(arch), got.sd)
    IN  IF ~got.ok
          THEN [kind |-> "model", raised |-> "none", printed |-> got.exc,
                model |-> [MultistepLSTM(arch) EXCEPT !.mode = "eval"]]
        ELSE IF ~res.ok
          THEN [kind |-> "None", raised |-> "none", printed |-> "RuntimeError"]
        ELSE [kind |-> "model", raised |-> "none", printed |-> "loaded",
              model |-> [res.model EXCEPT !.mode = "eval"]]

----------------------------------------------------------------------------
(* load_model_for_prediction(model_path, device, ..., hidden_size, ...,    *)
(* pred_steps, ...): every exception is caught, printed, and None returned.*)
load_model_for_prediction(f, arch) ==
    LET got == torch_load(f)
        res == load_state_dict(MultistepLSTM(arch), got.sd)
    IN  IF ~got.ok
          THEN [kind |-> "None", raised |-> "none", printed |-> got.exc]
        ELSE IF ~res.ok
          THEN [kind |-> "None", raised |-> "none", printed |-> "RuntimeError"]
        ELSE [kind |-> "model", raised |-> "none", printed |-> "loaded",
              model |-> [res.model EXCEPT !.mode = "eval"]]

\* model = load_model_for_prediction(model_path, device, ...) on the file
\* as it is now
LoadCheckpoint ==
    /\ \E arch \in Archs :
         loaded' = [call |-> [arch |-> arch, read |-> file, run_pc |-> pc[1]],
                    out |-> load_model_for_prediction(file, arch)]
    /\ UNCHANGED <<dsVars, scVars, prVars, mm, runVars, file, file0, svVars>>

\* A caller loads the checkpoint once every run has ended.
LoadForPrediction ==
    /\ \A r \in Runs : pc[r] \in {"idle", "done", "raised", "returned"}
    /\ LoadCheckpoint

----------------------------------------------------------------------------
(* SpecFeatures: the two feature derivations applied to a caller's table.  *)

InitFeatures ==
    /\ df \in Tables
    /\ input_window \in 1..MaxWindow
    /\ pred_steps \in 1..MaxSteps
    /\ data = <<>>
    /\ dsop = NoOp
    /\ tput = NoTput
    /\ score = NoScore
    /\ NoRuns
    /\ prep = NoPrep
    /\ pmodel = NoModel
    /\ preds = <<>>
    /\ NoServers
    /\ mm = NoScaler

\* dataset = MultistepDataset(df, input_window, pred_steps)
DatasetInit ==
    /\ dsop = NoOp
    /\ LET out == MultistepDataset_init(df, input_window, pred_steps)
       IN  /\ dsop' = [op |-> "init", before |-> df, out |-> out]
           /\ df' = out.df
           /\ data' = IF out.raised = "none" THEN out.data ELSE data
    /\ UNCHANGED <<input_window, pred_steps, scVars, runVars, ckVars,
                   prep, pmodel, preds, mm, svVars>>

\* input_data = prepare_input_data_for_prediction(df, input_window)
PrepareInput ==
    /\ prep = NoPrep
    /\ LET out == prepare_input_data_for_prediction(df, input_window)
       IN  /\ prep' = [kind |-> "called", before |-> df, out |-> out]
           /\ df' = out.df
    /\ UNCHANGED <<dsVars, scVars, runVars, ckVars, pmodel, preds, mm, svVars>>

NextFeatures == DatasetInit \/ PrepareInput

----------------------------------------------------------------------------
(* SpecPredict: demo_prediction's steps after the model is loaded: the     *)
(* input is prepared from the table and predict_future_metrics is called.  *)

\* Dropout masks a forward pass in training mode can draw.
Masks == {"m1", "m2"}

\* model(x) for a batch of one window: pred_steps rows of output_size
\* values, a function fn of the parameters, the input and, when dropout is
\* active (training mode, num_layers > 1), of the mask drawn.
Forward(m, x, mask) ==
    [fn |-> [params |-> m.sd, x |-> x,
             dropout |-> IF m.mode = "train" /\ m.arch.num_layers > 1
                           THEN mask ELSE "off"],
     rows |-> [j \in 1..m.arch.pred_steps |->
                 [i \in 1..m.arch.output_size |-> <<j, i>>]]]

\* The forward pass runs in whatever mode the model is in.
predict_future_metrics_noeval(m, input_data, k, mask) ==
    [model |-> m, predictions |-> Forward(m, input_data, mask)]

\* predict_future_metrics(model, input_data, device, pred_steps=k): the
\* model as the call leaves it and the predictions returned.  k is not
\* read by the body.
predict_future_metrics(m, input_data, k, mask) ==
    LET m1 == [m EXCEPT !.mode = "eval"]
    IN  [model |-> m1, predictions |-> Forward(m1, input_data, mask)]

InitPredict ==
    /\ df \in FullTables
    /\ input_window \in 1..MaxWindow
    /\ pred_steps \in 1..MaxSteps
    /\ data = <<>>
    /\ dsop = NoOp
    /\ tput = NoTput
    /\ score = NoScore
    /\ file = StateDictFile(StateDict(RetrainArch(pred_steps), StoredVal))
    /\ file0 = file
    /\ call = [r \in Runs |-> NoCall]
    /\ pc = [r \in Runs |-> "idle"]
    /\ sizes = [r \in Runs |-> NoSizes]
    /\ model = [r \in Runs |-> NoModel]
    /\ epoch = [r \in Runs |-> 0]
    /\ losses = [r \in Runs |-> NoLosses]
    /\ ret = [r \in Runs |-> NoRet]
    /\ loaded = NotLoaded
    /\ prep = NoPrep
    /\ \E md \in {"train", "eval"} :
         pmodel = [load_model_for_prediction(file, RetrainArch(pred_steps)).model
                     EXCEPT !.mode = md]
    /\ preds = <<>>
    /\ NoServers
    /\ mm = NoScaler

\* predictions = predict_future_metrics(model, input_data, device, pred_steps=k)
Predict ==
    /\ prep # NoPrep
    /\ prep.out.raised = "none"
    /\ Len(preds) < MaxCalls
    /\ \E k \in 1..MaxSteps, mask \in Masks :
         LET out == predict_future_metrics(pmodel, prep.out.ret, k, mask)
         IN  /\ preds' = Append(preds,
                   [pred_steps |-> k, mode |-> pmodel.mode,
                    params |-> pmodel.sd, input_data |-> prep.out.ret,
                    scaler |-> mm, predictions |-> out.predictions])
             /\ pmodel' = out.model
    /\ UNCHANGED <<dsVars, scVars, runVars, ckVars, df, prep, mm, svVars>>

NextPredict == PrepareInput \/ Predict

----------------------------------------------------------------------------
(* SpecScaler: MinMaxScaler(feature_range=(0, 1)) fit on a matrix X, then  *)
(* a row x transformed and transformed back.  Numbers are exact quotients  *)
(* num / den with den > 0.                                                 *)

Q(n) == [num |-> n, den |-> 1]
QAdd(a, b) == [num |-> a.num * b.den + b.num * a.den, den |-> a.den * b.den]
QSub(a, b) == [num |-> a.num * b.den - b.num * a.den, den |-> a.den * b.den]
QMul(a, b) == [num |-> a.num * b.num, den |-> a.den * b.den]
\* a / b for b > 0
QDiv(a, b) == [num |-> a.num * b.den, den |-> a.den * b.num]
QEq(a, b) == a.num * b.den = b.num * a.den

ScalerColumns == {1, 2}

SetMin(S) == CHOOSE x \in S : \A y \in S : x <= y
SetMax(S) == CHOOSE x \in S : \A y \in S : x >= y

\* A constant column has range 0; it is scaled by 1.
handle_zeros_in_scale(r) == IF r = 0 THEN 1 ELSE r

\* scaler.fit(X)
MinMaxScaler_fit(X) ==
    LET data_min == [c \in ScalerColumns |-> SetMin({X[i][c] : i \in DOMAIN X})]
        data_max == [c \in ScalerColumns |-> SetMax({X[i][c] : i \in DOMAIN X})]
        scale == [c \in ScalerColumns |->
                    QDiv(Q(1 - 0), Q(handle_zeros_in_scale(data_max[c] - data_min[c])))]
    IN  [data_min_ |-> data_min, data_max_ |-> data_max, scale_ |-> scale,
         min_ |-> [c \in ScalerColumns |->
                     QSub(Q(0), QMul(Q(data_min[c]), scale[c]))]]

\* scaler.transform(x): X * scale_ + min_
MinMaxScaler_transform(sc, x) ==
    [c \in ScalerColumns |-> QAdd(QMul(x[c], sc.scale_[c]), sc.min_[c])]

\* The offset min_ is not taken off before the division.
MinMaxScaler_inverse_transform_nomin(sc, t) ==
    [c \in ScalerColumns |-> QDiv(t[c], sc.scale_[c])]

\* scaler.inverse_transform(t): (X - min_) / scale_
MinMaxScaler_inverse_transform(sc, t) ==
    [c \in ScalerColumns |-> QDiv(QSub(t[c], sc.min_[c]), sc.scale_[c])]

InitScaler ==
    /\ df = NoTable
    /\ input_window = 1
    /\ pred_steps = 1
    /\ data = <<>>
    /\ dsop = NoOp
    /\ tput = NoTput
    /\ score = NoScore
    /\ NoRuns
    /\ prep = NoPrep
    /\ pmodel = NoModel
    /\ preds = <<>>
    /\ NoServers
    /\ \E X \in [1..ScalerRows -> [ScalerColumns -> 0..ScalerMax]] :
       \E x \in [ScalerColumns -> 0..ScalerMax] :
         /\ \A c \in ScalerColumns :
              /\ \E i \in DOMAIN X : X[i][c] <= x[c]
              /\ \E i \in DOMAIN X : X[i][c] >= x[c]
         /\ mm = [stage |-> "new", X |-> X, x |-> x]

\* scaler = MinMaxScaler(feature_range=(0, 1)); scaler.fit(X)
ScalerFit ==
    /\ mm.stage = "new"
    /\ mm' = [stage |-> "fit", X |-> mm.X, x |-> mm.x,
              scaler |-> MinMaxScaler_fit(mm.X)]
    /\ UNCHANGED <<dsVars, scVars, runVars, ckVars, prVars, svVars>>

\* t = scaler.transform(x)
ScalerTransform ==
    /\ mm.stage = "fit"
    /\ mm' = [stage |-> "transformed", X |-> mm.X, x |-> mm.x,
              scaler |-> mm.scaler,
              t |-> MinMaxScaler_transform(mm.scaler,
                        [c \in ScalerColumns |-> Q(mm.x[c])])]
    /\ UNCHANGED <<dsVars, scVars, runVars, ckVars, prVars, svVars>>

\* back = scaler.inverse_transform(t)
ScalerInverse ==
    /\ mm.stage = "transformed"
    /\ mm' = [stage |-> "inverted", X |-> mm.X, x |-> mm.x,
              scaler |-> mm.scaler, t |-> mm.t,
              back |-> MinMaxScaler_inverse_transform(mm.scaler, mm.t)]
    /\ UNCHANGED <<dsVars, scVars, runVars, ckVars, prVars, svVars>>

NextScaler == ScalerFit \/ ScalerTransform \/ ScalerInverse

----------------------------------------------------------------------------
(* Spec: run 1 is one call of retrain_model_with_new_data or of            *)
(* train_pytorch_model; run 2 stays idle.                                  *)
InitRetrain ==
    /\ \E n \in 0..MaxRows : data = Rows(n)
    /\ input_window \in 1..MaxWindow
    /\ pred_steps \in 1..MaxSteps
    /\ file \in FileInits
    /\ \E rd \in BOOLEAN, e \in 0..MaxEpochs :
         call = [r \in Runs |-> IF r = 1
                   THEN [kind |-> "retrain", readable |-> rd, epochs |-> e,
                         seed |-> {}]
                   ELSE NoCall]
    /\ pc = [r \in Runs |-> IF r = 1 THEN "read_csv" ELSE "idle"]
    /\ sizes = [r \in Runs |-> NoSizes]
    /\ model = [r \in Runs |-> NoModel]

InitTrain ==
    /\ data = Rows(0)
    /\ input_window = 1
    /\ pred_steps = 1
    /\ file = MissingFile
    /\ \E e \in 0..MaxEpochs :
         call = [r \in Runs |-> IF r = 1
                   THEN [kind |-> "train", epochs |-> e]
                   ELSE NoCall]
    /\ pc = [r \in Runs |-> IF r = 1 THEN "tpm_start" ELSE "idle"]
    /\ \E tr, va \in 0..MaxPart :
         sizes = [r \in Runs |-> IF r = 1
                    THEN [train_size |-> tr, val_size |-> va]
                    ELSE NoSizes]
    /\ \E nfeat \in {4, 10} :
         model = [r \in Runs |-> IF r = 1 THEN LSTMModel(nfeat) ELSE NoModel]

Init ==
    /\ dsop = NoOp
    /\ tput = NoTput
    /\ score = NoScore
    /\ InitRetrain \/ InitTrain
    /\ file0 = file
    /\ epoch = [r \in Runs |-> 0]
    /\ losses = [r \in Runs |-> NoLosses]
    /\ ret = [r \in Runs |-> NoRet]
    /\ loaded = NotLoaded
    /\ NoPipeline
    /\ NoServers

RetrainStep(r) ==
    \/ ReadNewData(r)
    \/ CreateDataset(r)
    \/ SplitData(r)
    \/ CreateLoaders(r)
    \/ LoadOrCreate(r)
    \/ TrainEpoch(r)
    \/ EvalEpoch(r)
    \/ SaveBegin(r)
    \/ SaveEnd(r)

TrainStep(r) ==
    \/ TpmStart(r)
    \/ TpmTrain(r)
    \/ TpmEval(r)
    \/ TpmReturn(r)

Next ==
    \/ RetrainStep(1)
    \/ TrainStep(1)
    \/ LoadForPrediction

----------------------------------------------------------------------------
(* SpecMain: run 1 is main_pytorch from the call of train_pytorch_model    *)
(* to the save at MODEL_SAVE_PATH; once it has ended the checkpoint is     *)
(* loaded for prediction and run 2 retrains at the same path.              *)

\* model.eval() and the test pass, the inverse transforms and the plots;
\* then torch.save(model.state_dict(), MODEL_SAVE_PATH) opens the path ...
MainSaveBegin(r) ==
    /\ pc[r] = "done"
    /\ call[r].kind = "main"
    /\ model' = [model EXCEPT ![r].mode = "eval"]
    /\ file' = PartialFile
    /\ pc' = [pc EXCEPT ![r] = "main_saving"]
    /\ UNCHANGED <<dsVars, scVars, prVars, mm, file0, loaded, call, sizes,
                   epoch, losses, ret, svVars>>

\* ... and writes the state dict of the LSTMModel
MainSaveEnd(r) ==
    /\ pc[r] = "main_saving"
    /\ file' = StateDictFile(model[r].sd)
    /\ pc' = [pc EXCEPT ![r] = "main_done"]
    /\ UNCHANGED <<dsVars, scVars, prVars, mm, file0, loaded, call, sizes,
                   model, epoch, losses, ret, svVars>>

MainStep(r) == MainSaveBegin(r) \/ MainSaveEnd(r)

InitMain ==
    /\ dsop = NoOp
    /\ tput = NoTput
    /\ score = NoScore
    /\ data = Rows(MaxRows)
    /\ input_window = 1
    /\ pred_steps \in 1..MaxSteps
    /\ file \in {MissingFile, CorruptFile}
    /\ file0 = file
    /\ \E e, e2 \in 0..1 :
         call = [r \in Runs |-> IF r = 1
                   THEN [kind |-> "main", epochs |-> e]
                   ELSE [kind |-> "retrain", readable |-> TRUE, epochs |-> e2,
                         seed |-> {}]]
    /\ pc = [r \in Runs |-> IF r = 1 THEN "tpm_start" ELSE "read_csv"]
    /\ sizes = [r \in Runs |-> IF r = 1
                  THEN [train_size |-> MaxPart, val_size |-> 1]
                  ELSE NoSizes]
    /\ \E nfeat \in {4, 10} :
         model = [r \in Runs |-> IF r = 1 THEN LSTMModel(nfeat) ELSE NoModel]
    /\ epoch = [r \in Runs |-> 0]
    /\ losses = [r \in Runs |-> NoLosses]
    /\ ret = [r \in Runs |-> NoRet]
    /\ loaded = NotLoaded
    /\ NoPipeline
    /\ NoServers

NextMain ==
    \/ TrainStep(1)
    \/ MainStep(1)
    \/ pc[1] = "main_done" /\ RetrainStep(2)
    \/ pc[1] = "main_done" /\ pc[2] = "read_csv" /\ LoadCheckpoint

----------------------------------------------------------------------------
(* SpecSplit: the steps of a retrain up to the split, for every state of   *)
(* the random generator.                                                   *)

\* States of the generator, by the indices its permutation puts first.
Seeds == SUBSET (0..(MaxRows - 2))

InitSplit ==
    /\ dsop = NoOp
    /\ tput = NoTput
    /\ score = NoScore
    /\ \E n \in 0..MaxRows : data = Rows(n)
    /\ input_window \in 1..MaxWindow
    /\ pred_steps \in 1..MaxSteps
    /\ file = MissingFile
    /\ file0 = file
    /\ \E sd \in Seeds :
         call = [r \in Runs |-> IF r = 1
                   THEN [kind |-> "retrain", readable |-> TRUE, epochs |-> 0,
                         seed |-> sd]
                   ELSE NoCall]
    /\ pc = [r \in Runs |-> IF r = 1 THEN "read_csv" ELSE "idle"]
    /\ sizes = [r \in Runs |-> NoSizes]
    /\ model = [r \in Runs |-> NoModel]
    /\ epoch = [r \in Runs |-> 0]
    /\ losses = [r \in Runs |-> NoLosses]
    /\ ret = [r \in Runs |-> NoRet]
    /\ loaded = NotLoaded
    /\ NoPipeline
    /\ NoServers

NextSplit == ReadNewData(1) \/ CreateDataset(1) \/ SplitData(1)

----------------------------------------------------------------------------
(* SpecConcurrent: two calls of retrain_model_with_new_data on the same    *)
(* model_path run at once, one epoch each.                                 *)
(* SpecReadWrite: one retrain, and load_model_for_prediction called once   *)
(* at any moment of it.                                                    *)

InitConcurrent ==
    /\ dsop = NoOp
    /\ tput = NoTput
    /\ score = NoScore
    /\ data = Rows(MaxRows)
    /\ input_window = 1
    /\ pred_steps \in 1..MaxSteps
    /\ file \in FileInits
    /\ file0 = file
    /\ call = [r \in Runs |->
                 [kind |-> "retrain", readable |-> TRUE, epochs |-> 1,
                  seed |-> {}]]
    /\ pc = [r \in Runs |-> "read_csv"]
    /\ sizes = [r \in Runs |-> NoSizes]
    /\ model = [r \in Runs |-> NoModel]
    /\ epoch = [r \in Runs |-> 0]
    /\ losses = [r \in Runs |-> NoLosses]
    /\ ret = [r \in Runs |-> NoRet]
    /\ loaded = NotLoaded
    /\ NoPipeline
    /\ NoServers

NextConcurrent == RetrainStep(1) \/ RetrainStep(2)

InitReadWrite ==
    /\ dsop = NoOp
    /\ tput = NoTput
    /\ score = NoScore
    /\ data = Rows(MaxRows)
    /\ input_window = 1
    /\ pred_steps \in 1..MaxSteps
    /\ file \in FileInits
    /\ file0 = file
    /\ \E e \in 0..1 :
         call = [r \in Runs |-> IF r = 1
                   THEN [kind |-> "retrain", readable |-> TRUE, epochs |-> e,
                         seed |-> {}]
                   ELSE NoCall]
    /\ pc = [r \in Runs |-> IF r = 1 THEN "read_csv" ELSE "idle"]
    /\ sizes = [r \in Runs |-> NoSizes]
    /\ model = [r \in Runs |-> NoModel]
    /\ epoch = [r \in Runs |-> 0]
    /\ losses = [r \in Runs |-> NoLosses]
    /\ ret = [r \in Runs |-> NoRet]
    /\ loaded = NotLoaded
    /\ NoPipeline
    /\ NoServers

NextReadWrite ==
    \/ RetrainStep(1)
    \/ loaded = NotLoaded /\ LoadCheckpoint

----------------------------------------------------------------------------
(* SpecServing: the serving layer (src/ml_models/main.py).  The process    *)
(* holds the registry trained_models (model name -> number of data points) *)
(* in memory; the directory CHECKPOINT_DIR holds, per save, the file       *)
(* <name>.json and the file <name>_<data_points>.meta.json, and outlives   *)
(* the process.  api.removed is history: the names deleted with            *)
(* delete_model and not trained since.                                     *)

ModelNames == {"cpu", "mem"}
DataPoints == {10, 20}

NoResponse == [op |-> "none", name |-> "", status |-> 0, models |-> {}]

Response(op, name, status, models) ==
    [op |-> op, name |-> name, status |-> status, models |-> models]

\* trained_models: Dict[str, int] = {}
NoModels == [n \in {} |-> 0]

\* save_model(model_name, model, metadata) on the directory dir.
save_model(dir, model_name, data_points) ==
    [json |-> dir.json \cup {model_name},
     meta |-> dir.meta \cup {<<model_name, data_points>>}]

\* load_model(model_name): TRUE when a model and its metadata are returned,
\* FALSE when it returns None, None.
load_model(dir, model_name) ==
    /\ model_name \in dir.json
    /\ \E k \in DataPoints : <<model_name, k>> \in dir.meta

\* The values trained_models can have after startup_event: one entry per
\* name with a .meta.json file; with several files for one name the file
\* that os.listdir lists last gives the number.
startup_event(dir) ==
    LET names == {f[1] : f \in dir.meta}
    IN  {t \in [names -> DataPoints] : \A n \in names : <<n, t[n]>> \in dir.meta}

\* The process starts with an empty registry and runs startup_event.
ApiStart ==
    /\ ~api.up
    /\ \E t \in startup_event(api.dir) :
         api' = [api EXCEPT !.up = TRUE, !.trained_models = t,
                            !.resp = NoResponse]
    /\ UNCHANGED <<dsVars, scVars, runVars, ckVars, prVars, mm, mock>>

\* The process ends; its memory is lost, the directory stays.
ApiStop ==
    /\ api.up
    /\ api' = [api EXCEPT !.up = FALSE, !.trained_models = NoModels,
                          !.resp = NoResponse]
    /\ UNCHANGED <<dsVars, scVars, runVars, ckVars, prVars, mm, mock>>

\* GET /models
list_models ==
    /\ api.up
    /\ api' = [api EXCEPT !.resp =
                 Response("list_models", "", 200, DOMAIN api.trained_models)]
    /\ UNCHANGED <<dsVars, scVars, runVars, ckVars, prVars, mm, mock>>

\* POST /train for model_name: the CSV file is missing (404), the data
\* cannot be prepared (400), training fails (500), or the model is trained
\* on data_points rows, saved and registered.
train_model(model_name) ==
    /\ api.up
    /\ \/ \E status \in {404, 400, 500} :
            api' = [api EXCEPT !.resp = Response("train", model_name, status, {})]
       \/ \E data_points \in DataPoints :
            api' = [api EXCEPT
                      !.dir = save_model(api.dir, model_name, data_points),
                      !.trained_models =
                          [n \in DOMAIN api.trained_models \cup {model_name} |->
                              IF n = model_name THEN data_points
                              ELSE api.trained_models[n]],
                      !.removed = api.removed \ {model_name},
                      !.resp = Response("train", model_name, 200, {})]
    /\ UNCHANGED <<dsVars, scVars, runVars, ckVars, prVars, mm, mock>>

\* POST /predict for model_name: 404 when the name is not registered; 500
\* when load_model finds no files (make_predictions gets None) or a later
\* step raises; 200 otherwise.
predict(model_name) ==
    /\ api.up
    /\ \E status \in {200, 404, 500} :
         /\ status = 404 <=> model_name \notin DOMAIN api.trained_models
         /\ status = 200 => load_model(api.dir, model_name)
         /\ api' = [api EXCEPT !.resp = Response("predict", model_name, status, {})]
    /\ UNCHANGED <<dsVars, scVars, runVars, ckVars, prVars, mm, mock>>

\* DELETE /models/{model_name}: the entry leaves the registry; nothing is
\* removed from the directory.
delete_model(model_name) ==
    /\ api.up
    /\ IF model_name \notin DOMAIN api.trained_models
       THEN api' = [api EXCEPT !.resp = Response("delete_model", model_name, 404, {})]
       ELSE api' = [api EXCEPT
                      !.trained_models =
                          [n \in DOMAIN api.trained_models \ {model_name} |->
                              api.trained_models[n]],
                      !.removed = api.removed \cup {model_name},
                      !.resp = Response("delete_model", model_name, 200, {})]
    /\ UNCHANGED <<dsVars, scVars, runVars, ckVars, prVars, mm, mock>>

\* The process has not started and CHECKPOINT_DIR does not exist.
InitServing ==
    /\ data = <<>>
    /\ input_window = 1
    /\ pred_steps = 1
    /\ dsop = NoOp
    /\ tput = NoTput
    /\ score = NoScore
    /\ NoRuns
    /\ NoPipeline
    /\ mock = NoMock
    /\ api = [up |-> FALSE, trained_models |-> NoModels,
              dir |-> [json |-> {}, meta |-> {}], removed |-> {},
              resp |-> NoResponse]

NextServing ==
    \/ ApiStart
    \/ ApiStop
    \/ list_models
    \/ \E n \in ModelNames : train_model(n)
    \/ \E n \in ModelNames : predict(n)
    \/ \E n \in ModelNames : delete_model(n)

----------------------------------------------------------------------------
(* SpecMock: the mock metrics server                                       *)
(* (src/system-load-ai/mock-server/app.py).  A CSV row is whether its      *)
(* fields convert with float() and its 'CPU usage [%]' value; the gauges   *)
(* are represented by cpu_usage_percent, which starts at 0.                *)

CsvRows == [ok : BOOLEAN, cpu : 1..2]

\* What pd.read_csv can give: the tables of at most MaxCsv rows.
CsvTables == UNION {[1..n -> CsvRows] : n \in 0..MaxCsv}

\* csv_data = None
NoCsv == [kind |-> "None", rows |-> <<>>]

\* get_next_csv_row(): the row returned ("none" for None) and the new
\* current_row_index.
get_next_csv_row(m) ==
    IF ~m.csv_loaded \/ m.csv_data.kind = "None" \/ m.csv_data.rows = <<>>
    THEN [row |-> [kind |-> "none"], current_row_index |-> m.current_row_index]
    ELSE [row |-> [kind |-> "row",
                   value |-> m.csv_data.rows[m.current_row_index + 1]],
          current_row_index |->
              (m.current_row_index + 1) % Len(m.csv_data.rows)]

\* generate_realistic_system_metrics(): the server's state after the call,
\* and how the call ended: "set" (gauges updated), "return" (a field did not
\* convert, the function returns early) or "UnboundLocalError" (csv_row is
\* None, so cpu_percent was never assigned when it is read).
generate_realistic_system_metrics(m) ==
    LET next == get_next_csv_row(m)
        m1 == [m EXCEPT !.current_row_index = next.current_row_index]
    IN  IF next.row.kind = "none"
        THEN [mock |-> m1, outcome |-> "UnboundLocalError"]
        ELSE IF ~next.row.value.ok
        THEN [mock |-> m1, outcome |-> "return"]
        ELSE [mock |-> [m1 EXCEPT !.cpu_usage_percent = next.row.value.cpu],
              outcome |-> "set"]

\* startup_event(): load_csv_data() reads the CSV file, or fails and leaves
\* csv_data None and csv_loaded False.
MockStart ==
    /\ ~mock.up
    /\ \/ \E t \in CsvTables :
            mock' = [mock EXCEPT !.up = TRUE, !.csv_loaded = TRUE,
                                 !.csv_data = [kind |-> "DataFrame", rows |-> t]]
       \/ mock' = [mock EXCEPT !.up = TRUE, !.csv_loaded = FALSE]
    /\ UNCHANGED <<dsVars, scVars, runVars, ckVars, prVars, mm, api>>

\* GET /metrics, GET /health or GET /metrics/current: each handler calls
\* generate_realistic_system_metrics() and then builds its answer; an
\* exception that leaves the handler is answered with status 500.
MockRequest(path) ==
    /\ mock.up
    /\ LET g == generate_realistic_system_metrics(mock)
       IN  mock' = [g.mock EXCEPT
                      !.resp = [path |-> path,
                                outcome |-> g.outcome,
                                row |-> get_next_csv_row(mock).row.kind,
                                status |-> IF g.outcome = "UnboundLocalError"
                                           THEN 500 ELSE 200]]
    /\ UNCHANGED <<dsVars, scVars, runVars, ckVars, prVars, mm, api>>

MockPaths == {"/metrics", "/health", "/metrics/current"}

InitMock ==
    /\ data = <<>>
    /\ input_window = 1
    /\ pred_steps = 1
    /\ dsop = NoOp
    /\ tput = NoTput
    /\ score = NoScore
    /\ NoRuns
    /\ NoPipeline
    /\ api = NoApi
    /\ mock = [up |-> FALSE, csv_loaded |-> FALSE, csv_data |-> NoCsv,
               current_row_index |-> 0, cpu_usage_percent |-> 0,
               resp |-> [path |-> "", outcome |-> "", row |-> "", status |-> 0]]

NextMock ==
    \/ MockStart
    \/ \E path \in MockPaths : MockRequest(path)

vars == <<dsVars, scVars, runVars, ckVars, prVars, mm, svVars>>

Spec == Init /\ [][Next]_vars

SpecDataset == InitDataset /\ [][NextDataset]_vars
SpecScore == InitScore /\ [][NextScore]_vars
SpecFeatures == InitFeatures /\ [][NextFeatures]_vars
SpecPredict == InitPredict /\ [][NextPredict]_vars
SpecScaler == InitScaler /\ [][NextScaler]_vars
SpecMain == InitMain /\ [][NextMain]_vars
SpecSplit == InitSplit /\ [][NextSplit]_vars
SpecConcurrent == InitConcurrent /\ [][NextConcurrent]_vars
SpecReadWrite == InitReadWrite /\ [][NextReadWrite]_vars
SpecServing == InitServing /\ [][NextServing]_vars
SpecMock == InitMock /\ [][NextMock]_vars

----------------------------------------------------------------------------
(* Claims about the dataset (SpecDataset).                                 *)

\* C1 (as stated): the length the dataset reports is
\* max(0, N - w - p + 1), so it is 0 and never negative when N < w + p.
\* __len__ has no clamp: for N < w + p it returns a negative number, and
\* Python's len() then raises ValueError.
C1_LenIsClampedCount ==
    dsop.op = "len" =>
        /\ dsop.raw = Max(0, Len(data) - input_window - pred_steps + 1)
        /\ dsop.builtin = [kind |-> "int",
                           val |-> Max(0, Len(data) - input_window - pred_steps + 1)]

\* C2: for 0 <= i <= N - w - p, item i is (rows[i : i+w], rows[i+w : i+w+p]):
\* w consecutive rows starting at row i, then the p rows that follow them,
\* so the window's first row advances with i.
C2_ItemIsWindowAndTarget ==
    (dsop.op = "getitem" /\ dsop.idx <= Len(data) - input_window - pred_steps) =>
        LET x == dsop.item.x
            y == dsop.item.y
        IN  /\ Len(x) = input_window
            /\ Len(y) = pred_steps
            /\ \A k \in 1..input_window : x[k] = data[dsop.idx + k]
            /\ \A k \in 1..pred_steps : y[k] = data[dsop.idx + input_window + k]
            /\ y[1] = x[input_window] + 1

C2_Witness ==
    /\ dsop.op = "getitem"
    /\ dsop.idx >= 1
    /\ dsop.idx = Len(data) - input_window - pred_steps
    /\ Len(dsop.item.x) >= 2
    /\ Len(dsop.item.y) >= 2

----------------------------------------------------------------------------
(* Claims about the load scores (SpecScore).                               *)
Thresholds == IF tput.kind = "network" THEN NetThresholds ELSE DiskThresholds

\* C7: both score functions are monotonic non-decreasing: a <= b implies
\* score(a) <= score(b), across segments and thresholds too.
C7_ScoreMonotonic ==
    (score.kind # "none" /\ tput.a <= tput.b) => score.a <= score.b

C7_Witness ==
    /\ score.kind = "network"
    /\ tput.a = 128
    /\ tput.b = 129
    /\ score.a < score.b

\* C8: every score lies in [0, 100]; a negative total scores 0 and a total
\* at or above the max threshold scores exactly 100.
C8_ScoreBounded ==
    score.kind # "none" =>
        \A v \in {<<tput.a, score.a>>, <<tput.b, score.b>>} :
            /\ 0 <= v[2]
            /\ v[2] <= 100 * ScoreDenom
            /\ v[1] < 0 => v[2] = 0
            /\ v[1] >= Thresholds[4] => v[2] = 100 * ScoreDenom

C8_Witness ==
    /\ score.kind = "disk"
    /\ tput.a < 0
    /\ score.a = 0
    /\ tput.b >= 102400
    /\ score.b = 100 * ScoreDenom

\* The score written with the half-open segments [0,low), [low,medium),
\* [medium,high), [high,max) and value >= max -> 100, clamped to [0,100].
HalfOpenScore(th, x) ==
    LET s == IF x < th[1]
               THEN Ratio(x, th[1]) * 25
             ELSE IF x < th[2]
               THEN 25 * ScoreDenom + Ratio(x - th[1], th[2] - th[1]) * 25
             ELSE IF x < th[3]
               THEN 50 * ScoreDenom + Ratio(x - th[2], th[3] - th[2]) * 25
             ELSE IF x < th[4]
               THEN 75 * ScoreDenom + Ratio(x - th[3], th[4] - th[3]) * 25
             ELSE 100 * ScoreDenom
    IN  Min(Max(s, 0), 100 * ScoreDenom)

\* C9: score(0)=0, score(low)=25, score(medium)=50, score(high)=75,
\* score(max)=100 for the network thresholds {128, 1280, 6400, 12800} and
\* the disk thresholds {1024, 10240, 51200, 102400}, and the code's closed
\* segments give the score of the half-open segments for every input.
C9_ScoreAtThresholds ==
    score.kind # "none" =>
        LET th == IF score.kind = "network" THEN <<128, 1280, 6400, 12800>>
                                            ELSE <<1024, 10240, 51200, 102400>>
        IN  \A v \in {<<tput.a, score.a>>, <<tput.b, score.b>>} :
                /\ v[1] = 0 => v[2] = 0
                /\ \A i \in 1..4 : v[1] = th[i] => v[2] = (25 * i) * ScoreDenom
                /\ v[2] = HalfOpenScore(th, v[1])

C9_Witness ==
    /\ score.kind = "disk"
    /\ tput.a = 10240
    /\ score.a = 50 * ScoreDenom
    /\ tput.b = 10241
    /\ score.b > score.a

----------------------------------------------------------------------------
(* Claims about retraining and the checkpoint (Spec).                      *)

\* The checkpoint that was at the path before the run loads into the
\* architecture the run constructs.
Loadable(f, arch) ==
    /\ f.kind = "state_dict"
    /\ load_state_dict(MultistepLSTM(arch), f.sd).ok

\* The new data gives both the train and the validation subset a pair.
EnoughRows == TrainSize(MultistepDataset_len(data, input_window, pred_steps)) >= 1

EveryTensor(sd, P(_)) == \A k \in DOMAIN sd : P(sd[k].val)

FromInit(v) == v.src = "init"

\* C3: with readable new data of enough rows, a retrain whose checkpoint is
\* missing or fails to load (corrupt, or of another architecture) never
\* ends in an error: it goes on to train a newly constructed model and
\* returns it with both loss histories.
C3_RetrainSurvivesBadCheckpoint ==
    (/\ call[1].kind = "retrain"
     /\ call[1].readable
     /\ EnoughRows
     /\ ~Loadable(file0, RetrainArch(pred_steps))) =>
        /\ pc[1] \notin {"raised", "returned"}
        /\ pc[1] = "done" \/ ENABLED RetrainStep(1)
        /\ pc[1] \in {"train_epoch", "eval_epoch", "save", "saving", "done"} =>
               /\ model[1].class = "MultistepLSTM"
               /\ EveryTensor(model[1].sd, FromInit)
        /\ pc[1] = "done" =>
               /\ ret[1].kind = "tuple"
               /\ ret[1].model = model[1]
               /\ Len(ret[1].train_losses) = call[1].epochs
               /\ Len(ret[1].val_losses) = call[1].epochs

C3_Witness ==
    /\ call[1].kind = "retrain"
    /\ EnoughRows
    /\ file0.kind = "state_dict"
    /\ ~Loadable(file0, RetrainArch(pred_steps))
    /\ pc[1] = "done"
    /\ ret[1].kind = "tuple"
    /\ call[1].epochs >= 1

\* C4: when the checkpoint exists and matches the configured architecture,
\* the model entering the first training epoch holds exactly the
\* checkpoint's parameters, not a new initialisation.
C4_WarmStartLoadsCheckpoint ==
    (/\ call[1].kind = "retrain"
     /\ Loadable(file0, RetrainArch(pred_steps))
     /\ pc[1] = "train_epoch"
     /\ epoch[1] = 1) =>
        /\ model[1].sd = file0.sd
        /\ EveryTensor(model[1].sd, LAMBDA v : v = StoredVal)

C4_Witness ==
    /\ call[1].kind = "retrain"
    /\ Loadable(file0, RetrainArch(pred_steps))
    /\ pc[1] = "train_epoch"
    /\ epoch[1] = 1
    /\ model[1].sd = file0.sd

\* C5: when retrain has run to completion, the file at the path holds
\* exactly the parameters of the returned model, whatever it held before,
\* and a load from the path with the same architecture gives them back.
C5_SavedIsReturned ==
    (call[1].kind = "retrain" /\ pc[1] = "done") =>
        /\ file = StateDictFile(ret[1].model.sd)
        /\ (/\ loaded # NotLoaded
            /\ loaded.call.arch = RetrainArch(pred_steps)) =>
               /\ loaded.out.kind = "model"
               /\ loaded.out.model.sd = ret[1].model.sd

C5_Witness ==
    /\ call[1].kind = "retrain"
    /\ pc[1] = "done"
    /\ file0.kind = "state_dict"
    /\ file # file0
    /\ loaded # NotLoaded
    /\ loaded.call.arch = RetrainArch(pred_steps)
    /\ loaded.out.kind = "model"
    /\ loaded.out.model.sd = ret[1].model.sd
    /\ call[1].epochs >= 1

\* C6: a completed training or retraining run with epoch count E returns a
\* train-loss and a validation-loss sequence of length exactly E, the k-th
\* entry produced by the k-th epoch, whatever the loss values were.
C6_OneLossPerEpoch ==
    (pc[1] = "done" /\ ret[1].kind \in {"tuple", "losses"}) =>
        LET first == IF call[1].kind = "retrain" THEN 1 ELSE 0
        IN  /\ Len(ret[1].train_losses) = call[1].epochs
            /\ Len(ret[1].val_losses) = call[1].epochs
            /\ \A k \in 1..call[1].epochs :
                 /\ ret[1].train_losses[k].epoch = first + k - 1
                 /\ ret[1].val_losses[k].epoch = first + k - 1

C6_Witness ==
    /\ call[1].kind = "retrain"
    /\ pc[1] = "done"
    /\ call[1].epochs >= 2
    /\ Len(ret[1].val_losses) = call[1].epochs
    /\ ret[1].val_losses[1].loss = "nan"
    /\ ret[1].train_losses[1].loss = "nan"

\* C10 (as stated): a failed load for prediction ends in an error that
\* names its cause: IOError when the path is missing,
\* ArchitectureMismatchError when the stored shapes differ from the
\* requested architecture; and no model is returned in either case.
\* load_model_for_prediction catches every exception and returns None for
\* both causes.
C10_LoadFailsWithTypedError ==
    loaded # NotLoaded =>
        /\ loaded.call.read.kind = "missing" =>
               /\ loaded.out.raised = "IOError"
               /\ loaded.out.kind # "model"
        /\ (/\ loaded.call.read.kind = "state_dict"
            /\ ~Loadable(loaded.call.read, loaded.call.arch)) =>
               /\ loaded.out.raised = "ArchitectureMismatchError"
               /\ loaded.out.kind # "model"

----------------------------------------------------------------------------
(* Claims about prediction (SpecPredict).                                  *)

\* C11: two calls of predict_future_metrics with the same parameters and
\* the same input window return identical forecasts, whatever mode the
\* model was in before each call, and no call changes the parameters.
C11_PredictDeterministicReadOnly ==
    /\ \A i \in 1..Len(preds) : pmodel.sd = preds[i].params
    /\ \A i, j \in 1..Len(preds) :
         (preds[i].params = preds[j].params
            /\ preds[i].input_data = preds[j].input_data)
         => preds[i].predictions = preds[j].predictions

\* Two calls happened, the first on a model in training mode, the second
\* on the model in evaluation mode.
C11_Witness ==
    /\ Len(preds) >= 2
    /\ preds[1].mode = "train"
    /\ preds[2].mode = "eval"
    /\ preds[1].params = preds[2].params
    /\ preds[1].input_data = preds[2].input_data
    /\ pmodel.arch.num_layers > 1

\* C12 (as stated): a call with pred_steps = k returns exactly k forecast
\* vectors of 4 features each.
C12_LengthIsRequested ==
    \A i \in 1..Len(preds) :
       /\ Len(preds[i].predictions.rows) = preds[i].pred_steps
       /\ \A j \in 1..Len(preds[i].predictions.rows) :
            Len(preds[i].predictions.rows[j]) = 4

\* C14 (as stated): every window fed to the model was transformed with the
\* scaler fit for the model's checkpoint, and every forecast returned was
\* transformed back with it; the raw prepared features are never the input.
C14_ScalerAppliedAtInference ==
    \A i \in 1..Len(preds) :
       /\ preds[i].scaler.stage = "fit"
       /\ preds[i].predictions.fn.x # prep.out.ret

----------------------------------------------------------------------------
(* Claims about the scaler (SpecScaler).                                   *)

\* C15: inverse_transform(transform(x)) = x for every x within the fitted
\* per-column [min, max]; a column with max = min is transformed to 0 and
\* transformed back to min.
C15_ScalerRoundTrip ==
    /\ mm.stage \in {"transformed", "inverted"} =>
         \A c \in ScalerColumns :
            mm.scaler.data_max_[c] = mm.scaler.data_min_[c]
              => QEq(mm.t[c], Q(0))
    /\ mm.stage = "inverted" =>
         \A c \in ScalerColumns :
            /\ QEq(mm.back[c], Q(mm.x[c]))
            /\ mm.scaler.data_max_[c] = mm.scaler.data_min_[c]
                 => QEq(mm.back[c], Q(mm.scaler.data_min_[c]))

\* A round trip was made with one constant nonzero column and one column
\* where x lies strictly inside a range with a nonzero minimum.
C15_Witness ==
    /\ mm.stage = "inverted"
    /\ \E c \in ScalerColumns :
         /\ mm.scaler.data_max_[c] = mm.scaler.data_min_[c]
         /\ mm.scaler.data_min_[c] > 0
    /\ \E c \in ScalerColumns :
         /\ mm.scaler.data_min_[c] > 0
         /\ mm.scaler.data_min_[c] < mm.x[c]
         /\ mm.x[c] <= mm.scaler.data_max_[c]

----------------------------------------------------------------------------
(* Claims about feature derivation (SpecFeatures).                         *)

\* The features of one raw row, in the fixed order.
FeatureRow(r) ==
    <<r[CPU],
      [num |-> r[MemUsage] * 100, den |-> r[MemCapacity]],
      calculate_network_load_score(r[NetRx] + r[NetTx]),
      calculate_disk_load_score(r[DiskRead] + r[DiskWrite])>>

\* C13 (as stated): the prepared input has exactly input_window rows: the
\* last input_window observations when there are that many, otherwise
\* (input_window - n) all-zero rows followed by the n observations, and
\* the padded result is marked as lower-confidence to the caller.
C13_WindowPaddedAndMarked ==
    (prep # NoPrep /\ prep.out.raised = "none") =>
       LET d == prep.out.data
           n == Len(d)
           w == input_window
       IN  /\ Len(prep.out.ret) = w
           /\ n >= w => \A i \in 1..w : prep.out.ret[i] = d[n - w + i]
           /\ n < w =>
                /\ \A i \in 1..(w - n) : prep.out.ret[i] = ZeroRow
                /\ \A i \in 1..n : prep.out.ret[w - n + i] = d[i]
                /\ "low_confidence" \in DOMAIN prep.out

\* C16: on the same raw table both derivations produce the same feature
\* matrix: one row per input row, columns
\* [cpu, memory usage / capacity * 100, network score, disk score].
C16_SameFeaturesBothSides ==
    (/\ dsop # NoOp
     /\ prep # NoPrep
     /\ dsop.out.raised = "none"
     /\ prep.out.raised = "none") =>
        /\ dsop.out.data = prep.out.data
        /\ Len(dsop.out.data) = Len(dsop.before.rows)
        /\ \A i \in 1..Len(dsop.out.data) :
             dsop.out.data[i] = FeatureRow(dsop.before.rows[i])

\* Both derivations ran on a table of two different rows whose network
\* and disk scores differ.
C16_Witness ==
    /\ dsop # NoOp
    /\ prep # NoPrep
    /\ dsop.out.raised = "none"
    /\ prep.out.raised = "none"
    /\ Len(dsop.out.data) >= 2
    /\ dsop.out.data[1] # dsop.out.data[2]
    /\ dsop.out.data[1][3] # dsop.out.data[1][4]

\* C17 (as stated): a derivation fails with DataError whenever a required
\* column is absent or the table has no rows, and returns no matrix then.
C17_DataErrorOnBadTable ==
    /\ (/\ dsop # NoOp
        /\ \/ ~(RequiredColumns \subseteq dsop.before.columns)
           \/ Len(dsop.before.rows) = 0)
         => dsop.out.raised = "DataError"
    /\ (/\ prep # NoPrep
        /\ \/ ~(RequiredColumns \subseteq prep.before.columns)
           \/ Len(prep.before.rows) = 0)
         => prep.out.raised = "DataError"

\* C18 (as stated): after either derivation the caller's table has the
\* same columns and the same values as before the call.
C18_InputNotMutated ==
    /\ dsop # NoOp => dsop.out.df = dsop.before
    /\ prep # NoPrep => prep.out.df = prep.before

----------------------------------------------------------------------------
(* Further claims about retraining (Spec).                                 *)

\* C19 (as stated): a retrain whose new data file cannot be read ends in
\* an error raised to the caller, never in a normal return.
C19_ReadErrorPropagates ==
    (/\ call[1].kind = "retrain"
     /\ ~call[1].readable
     /\ pc[1] # "read_csv") =>
        /\ pc[1] = "raised"
        /\ ret[1].kind = "raised"

\* C20 (as stated): with fewer than input_window + pred_steps rows a
\* retrain raises InsufficientDataError, runs no epoch and leaves the
\* checkpoint file as it was.
C20_InsufficientDataError ==
    (/\ call[1].kind = "retrain"
     /\ call[1].readable
     /\ Len(data) < input_window + pred_steps) =>
        /\ pc[1] \notin {"done", "returned"}
        /\ pc[1] = "raised" => ret[1].exc = "InsufficientDataError"
        /\ pc[1] = "raised" \/ ENABLED RetrainStep(1)
        /\ epoch[1] = 0
        /\ file = file0

----------------------------------------------------------------------------
(* Claims about the checkpoint of initial training (SpecMain).             *)

\* C21 (as stated): the checkpoint main_pytorch saves can be loaded by
\* load_model_for_prediction and is warm-started by a retrain at the same
\* path: the loaders' architecture matches the saved one.
C21_InitialCheckpointLoadable ==
    /\ (/\ loaded # NotLoaded
        /\ loaded.call.read = StateDictFile(model[1].sd)
        /\ loaded.call.arch = RetrainArch(loaded.call.arch.pred_steps))
         => loaded.out.kind = "model"
    /\ (/\ pc[1] = "main_done"
        /\ pc[2] = "train_epoch"
        /\ epoch[2] = 1)
         => model[2].sd = model[1].sd

----------------------------------------------------------------------------
(* Claims about the steps of one retrain (Spec).                           *)

\* C22: during retrain the file keeps its content from before the call in
\* every state up to the save (and in every state of a run that ended
\* early); the save starts only once every epoch has finished, and the
\* file changes in no other step.
C22_CheckpointWrittenOnceAtEnd ==
    /\ [](call[1].kind = "retrain" =>
            /\ pc[1] \notin {"saving", "done"} => file = file0
            /\ pc[1] \in {"save", "saving", "done"} =>
                   /\ epoch[1] = call[1].epochs + 1
                   /\ Len(losses[1].val_losses) = call[1].epochs)
    /\ [][(call[1].kind = "retrain" /\ file' # file) =>
             \/ pc[1] = "save" /\ pc'[1] = "saving"
             \/ pc[1] = "saving" /\ pc'[1] = "done"]_vars

\* A run on an existing checkpoint failed after its model was loaded, and
\* the checkpoint is as it was.
C22_Witness ==
    /\ call[1].kind = "retrain"
    /\ file0.kind = "state_dict"
    /\ pc[1] = "raised"
    /\ model[1].class = "MultistepLSTM"
    /\ file = file0

\* C23: the validation pass starts only from a finished training pass of
\* the same epoch, and it leaves the parameters of the model unchanged.
C23_EvalLeavesParameters ==
    [][/\ pc[1] \in {"eval_epoch", "tpm_eval"} => model'[1].sd = model[1].sd
       /\ pc'[1] = "eval_epoch" =>
            /\ pc[1] = "train_epoch"
            /\ model'[1].sd = Trained(model[1], 1).sd
            /\ epoch'[1] = epoch[1]
       /\ pc'[1] = "tpm_eval" =>
            /\ pc[1] = "tpm_train"
            /\ model'[1].sd = Trained(model[1], 1).sd
            /\ epoch'[1] = epoch[1]]_vars

\* Two epochs ran: the parameters took exactly two training passes.
C23_Witness ==
    /\ call[1].kind = "retrain"
    /\ pc[1] = "save"
    /\ Len(losses[1].val_losses) = 2
    /\ \A k \in DOMAIN model[1].sd : model[1].sd[k].val.upd = 2
    /\ model[1].mode = "eval"

\* pred_steps a checkpoint file was stored with
StoredPredSteps(f) == f.sd["fc.bias"].shape[1] \div 4

\* C27: the model of a retrain has the pred_steps of its dataset; a stored
\* checkpoint of another pred_steps is not warm-started: training starts
\* from a new model, and the file written has the passed pred_steps.
C27_PredStepsAgree ==
    call[1].kind = "retrain" =>
        /\ model[1].class # "none" =>
               /\ model[1].arch.pred_steps = pred_steps
               /\ \A k \in DOMAIN model[1].sd :
                     model[1].sd[k].shape = LSTMShape(RetrainArch(pred_steps), k)
        /\ (/\ file0.kind = "state_dict"
            /\ StoredPredSteps(file0) # pred_steps
            /\ pc[1] \in {"train_epoch", "eval_epoch", "save", "saving", "done"})
             => EveryTensor(model[1].sd, FromInit)
        /\ pc[1] = "done" =>
               /\ StoredPredSteps(file) = pred_steps
               /\ file.sd = model[1].sd

\* A checkpoint of hidden size 64 and another pred_steps was overwritten.
C27_Witness ==
    /\ call[1].kind = "retrain"
    /\ file0.kind = "state_dict"
    /\ file0.sd["lstm.l0"].shape = LSTMShape(RetrainArch(pred_steps), "lstm.l0")
    /\ StoredPredSteps(file0) # pred_steps
    /\ pc[1] = "done"
    /\ StoredPredSteps(file) = pred_steps

\* The failed load of checkpoint f into a new model copied some tensors.
CopiedBeforeFailing(f, arch) ==
    /\ f.kind = "state_dict"
    /\ ~load_state_dict(MultistepLSTM(arch), f.sd).ok
    /\ load_state_dict(MultistepLSTM(arch), f.sd).model.sd # MultistepLSTM(arch).sd

\* C28: when the checkpoint load inside retrain fails, no parameter of the
\* failed checkpoint is in the model that is trained, nor in the file
\* that is saved.
C28_FailedLoadIsDiscarded ==
    (/\ call[1].kind = "retrain"
     /\ file0.kind # "missing"
     /\ ~Loadable(file0, RetrainArch(pred_steps))) =>
        /\ model[1].class # "none" =>
               \A k \in DOMAIN model[1].sd : model[1].sd[k].val.src # "stored"
        /\ pc[1] = "done" =>
               \A k \in DOMAIN file.sd : file.sd[k].val.src # "stored"

\* A run completed whose failed load had copied tensors into the model it
\* was applied to.
C28_Witness ==
    /\ call[1].kind = "retrain"
    /\ CopiedBeforeFailing(file0, RetrainArch(pred_steps))
    /\ pc[1] = "done"
    /\ call[1].epochs >= 1
    /\ \A k \in DOMAIN file.sd : file.sd[k].val.src = "init"

----------------------------------------------------------------------------
(* Claims about the split (SpecSplit).                                     *)

\* C24: for a dataset of length L >= 1 the split gives floor(0.8 L) train
\* indices and L - floor(0.8 L) validation indices that are disjoint and
\* hold every index 0..L-1 exactly once; the validation subset is never
\* empty, and the train subset is not empty when L >= 2.
C24_SplitIsPartition ==
    (call[1].kind = "retrain" /\ pc[1] = "loaders") =>
        LET L == MultistepDataset_len(data, input_window, pred_steps)
            tr == sizes[1].train_indices
            va == sizes[1].val_indices
            all == tr \o va
        IN  L >= 1 =>
              /\ 5 * Len(tr) <= 4 * L
              /\ 4 * L < 5 * (Len(tr) + 1)
              /\ Len(va) = L - Len(tr)
              /\ \A i \in 1..Len(tr), j \in 1..Len(va) : tr[i] # va[j]
              /\ \A x \in 0..(L - 1) :
                    Cardinality({i \in 1..Len(all) : all[i] = x}) = 1
              /\ \A i \in 1..Len(all) : all[i] \in 0..(L - 1)
              /\ Len(va) >= 1
              /\ L >= 2 => Len(tr) >= 1

\* A split of five or more pairs whose validation subset holds the first
\* pair and whose train subset holds the last.
C24_Witness ==
    /\ call[1].kind = "retrain"
    /\ pc[1] = "loaders"
    /\ MultistepDataset_len(data, input_window, pred_steps) >= 5
    /\ Len(sizes[1].train_indices) >= 4
    /\ \E j \in 1..Len(sizes[1].val_indices) : sizes[1].val_indices[j] = 0
    /\ \E i \in 1..Len(sizes[1].train_indices) :
          sizes[1].train_indices[i] =
             MultistepDataset_len(data, input_window, pred_steps) - 1

----------------------------------------------------------------------------
(* Claims about concurrent use of one checkpoint path (SpecConcurrent,     *)
(* SpecReadWrite).                                                         *)

\* C25 (as stated): once two concurrent retrains on one path have both
\* saved, the file holds the parameters of one run only, the one that
\* saved last.
C25_FileIsOneRunsParameters ==
    (pc[1] = "done" /\ pc[2] = "done") =>
        \/ file = StateDictFile(model[1].sd)
        \/ file = StateDictFile(model[2].sd)

\* C25 (amended): nothing keeps two retrains from loading the same
\* checkpoint and saving to the same path; a save that overlapped no
\* other save leaves exactly the saving run's parameters in the file,
\* none of them trained by the other run.
C25_LastWholeSaveWins ==
    [][\A r \in Runs :
         (pc[r] = "saving" /\ pc'[r] = "done" /\ file = PartialFile) =>
            /\ file' = StateDictFile(model[r].sd)
            /\ \A k \in DOMAIN file'.sd : file'.sd[k].val.run = r]_vars

\* Both runs loaded the same prior checkpoint, trained it and saved one
\* after the other: the file holds the training of run 2 only.
C25_Witness ==
    /\ pc[1] = "done"
    /\ pc[2] = "done"
    /\ file0.kind = "state_dict"
    /\ \A r \in Runs : \A k \in DOMAIN model[r].sd :
          model[r].sd[k].val = [src |-> "stored", run |-> r, upd |-> 1]
    /\ file = StateDictFile(model[2].sd)
    /\ file # StateDictFile(model[1].sd)

----------------------------------------------------------------------------
(* Claims about the serving layer (SpecServing).                           *)

\* C29: a model removed with delete_model stays removed: as long as it is
\* not trained again, and across a restart that runs startup_event, its
\* name is not registered, list_models does not list it and predict for it
\* answers 404.
C29_DeletedStaysDeleted ==
    api.up =>
      \A n \in api.removed :
        /\ n \notin DOMAIN api.trained_models
        /\ api.resp.op = "list_models" => n \notin api.resp.models
        /\ (api.resp.op = "predict" /\ api.resp.name = n) =>
              api.resp.status = 404

----------------------------------------------------------------------------
(* Claims about the mock metrics server (SpecMock).                        *)

\* C30: a request for which get_next_csv_row returned no row (the CSV
\* failed to load or is empty) completes without error, the gauges set to
\* generated values.
C30_NoRowFallsBack ==
    (mock.up /\ mock.resp.row = "none") =>
      /\ mock.resp.status = 200
      /\ mock.resp.outcome = "set"

============================================================================
